---- MODULE Spec2Model ----
(***************************************************************************)
(* Model of the hpc-disk-monitor collectors: the disk collector            *)
(* (scripts/resource_metrics_collector.py), the API collector              *)
(* (scripts/api_status_collector.py) and the stats store (db/schema.py).   *)
(*                                                                         *)
(* Time is the UTC clock in seconds.  A "%Y-%m-%d %H:%M" string is modelled *)
(* by its minute index, a "YYYY-MM-DD HH:MM:SS" string of the store by its *)
(* second index; TEXT comparison between the two is modelled by TextLess.  *)
(* Floats are exact rationals <<numerator, denominator>>.  The clock moves  *)
(* between the runs of the collectors; the seconds one run takes are not   *)
(* counted.                                                                *)
(***************************************************************************)
EXTENDS Integers, Sequences, FiniteSets, TLC

\* ------------------------------------------------------------------ bounds
MaxTime == 1000000
StartTime == 864000
IdleStep == 57600
RetStep == 100000
RetHorizon == 1200000

\* ------------------------------------------------------- program constants
DURATION == 3
REQUEST_TIMEOUT == 30
CHUNK_SIZE == 4096
MIB == 1048576
KEEP_ALL_SECONDS == 86400
OLD_TIER_SECONDS == 259200
OLD_TIER_MODULUS == 60
MID_TIER_MODULUS == 6
SUMMARY_WINDOW_SECONDS == 3600
SECONDS_PER_MINUTE == 60
UNCAUGHT_EXIT == 1
DETAIL_LIMIT == 100

HOSTNAME == "host"

\* Local-time offsets from UTC of the hosts considered (seconds).
TzOffsets == {0 - 28800, 0, 28800}

\* The collectors a scheduler tick launches.
Collectors == {"disk", "api"}

\* ------------------------------------------------------------ environment
Unset == [set |-> FALSE, val |-> <<>>]
EnvStr(s) == [set |-> TRUE, val |-> s]

\* os.getenv(name, default)
getenv(var, default) == IF var.set THEN var.val ELSE default

\* The deployments considered: the environment of a host and its time zone.
TwoDisks ==
  [FILESYSTEM_PATHS |-> EnvStr(<<"a", ",", "b">>), FILESYSTEM_LABELS |-> EnvStr(<<"x", ",", "y">>),
   API_ENDPOINTS |-> EnvStr(<<"u">>), API_NAMES |-> EnvStr(<<"n", ",", "m">>)]
NothingConfigured ==
  [FILESYSTEM_PATHS |-> EnvStr(<<>>), FILESYSTEM_LABELS |-> EnvStr(<<>>),
   API_ENDPOINTS |-> EnvStr(<<>>), API_NAMES |-> EnvStr(<<>>)]
Defaults ==
  [FILESYSTEM_PATHS |-> Unset, FILESYSTEM_LABELS |-> Unset,
   API_ENDPOINTS |-> Unset, API_NAMES |-> Unset]
TwoApis ==
  [FILESYSTEM_PATHS |-> EnvStr(<<"a">>), FILESYSTEM_LABELS |-> EnvStr(<<"x", ",", "y">>),
   API_ENDPOINTS |-> EnvStr(<<"u", ",", "v">>), API_NAMES |-> Unset]

\* RESOURCE_STATS_DB names the store; unset, it is a path under the home
\* directory.  Here it names a place where no store can be opened.
NoStore ==
  [FILESYSTEM_PATHS |-> EnvStr(<<"a", ",", "b">>), FILESYSTEM_LABELS |-> EnvStr(<<"x", ",", "y">>),
   API_ENDPOINTS |-> EnvStr(<<"u">>), API_NAMES |-> EnvStr(<<"n">>),
   RESOURCE_STATS_DB |-> "unopenable"]

Hosts ==
  {[env |-> TwoDisks, tz |-> z] : z \in TzOffsets}
  \cup {[env |-> e, tz |-> 0] : e \in {NothingConfigured, Defaults, TwoApis}}

\* str.split(","): the fields between commas; "" splits into [""].
RECURSIVE SplitFrom(_, _, _, _)
SplitFrom(s, i, cur, acc) ==
  IF i > Len(s) THEN Append(acc, cur)
  ELSE IF s[i] = "," THEN SplitFrom(s, i + 1, <<>>, Append(acc, cur))
  ELSE SplitFrom(s, i + 1, Append(cur, s[i]), acc)

Split(s) == SplitFrom(s, 1, <<>>, <<>>)

\* [x.strip() for x in xs if x.strip()] (the alphabet holds no blanks).
RECURSIVE NonEmpty(_)
NonEmpty(xs) ==
  IF xs = <<>> THEN <<>>
  ELSE IF Head(xs) = <<>> THEN NonEmpty(Tail(xs))
  ELSE <<Head(xs)>> \o NonEmpty(Tail(xs))

Min2(a, b) == IF a < b THEN a ELSE b

\* dict(zip(keys, vals)): insertion-ordered, a repeated key keeps its first
\* position and takes the last value.
RECURSIVE DictPut(_, _, _)
DictPut(d, k, v) ==
  IF d = <<>> THEN << [key |-> k, val |-> v] >>
  ELSE IF Head(d).key = k THEN << [key |-> k, val |-> v] >> \o Tail(d)
  ELSE <<Head(d)>> \o DictPut(Tail(d), k, v)

RECURSIVE DictZipFrom(_, _, _, _)
DictZipFrom(ks, vs, i, d) ==
  IF i > Min2(Len(ks), Len(vs)) THEN d
  ELSE DictZipFrom(ks, vs, i + 1, DictPut(d, ks[i], vs[i]))

DictZip(ks, vs) == DictZipFrom(ks, vs, 1, <<>>)

\* Module-level parsing of the disk collector.
fs_paths(e) == Split(getenv(e.FILESYSTEM_PATHS, <<"/", "t", "m", "p">>))
fs_labels(e) == Split(getenv(e.FILESYSTEM_LABELS, <<"t", "m", "p", "f", "s">>))
FsConfigError(e) == Len(fs_paths(e)) # Len(fs_labels(e))
FILESYSTEM_CONFIG(e) == DictZip(fs_paths(e), fs_labels(e))

\* Module-level parsing of the API collector.
Digit(i) == <<"0", "1", "2", "3", "4", "5", "6", "7", "8", "9">>[i + 1]
api_endpoints(e) == NonEmpty(Split(getenv(e.API_ENDPOINTS, <<>>)))
api_names_raw(e) == NonEmpty(Split(getenv(e.API_NAMES, <<>>)))
api_names(e) ==
  IF Len(api_endpoints(e)) # Len(api_names_raw(e))
     /\ api_endpoints(e) # <<>> /\ api_names_raw(e) = <<>>
  THEN [i \in 1..Len(api_endpoints(e)) |-> <<"A", "P", "I", "-", Digit(i)>>]
  ELSE api_names_raw(e)
ApiConfigError(e) ==
  /\ Len(api_endpoints(e)) # Len(api_names_raw(e))
  /\ ~(api_endpoints(e) # <<>> /\ api_names_raw(e) = <<>>)
  /\ Len(api_endpoints(e)) > 0 /\ Len(api_names_raw(e)) > 0
API_CONFIG(e) ==
  IF api_endpoints(e) # <<>> THEN DictZip(api_endpoints(e), api_names(e)) ELSE <<>>

\* ------------------------------------------------------------- timestamps
\* strftime("%Y-%m-%d %H:%M"): the seconds are dropped.
StrfMinute(t) == t \div SECONDS_PER_MINUTE

\* SQLite datetime('now', '-N days'): UTC, with seconds.
SqlDatetime(t, back) == t - back

\* TEXT '<' of a 16-character minute string against a 19-character
\* second string: equal minutes make the shorter string the smaller one.
TextLess(minuteTs, secondTs) == minuteTs <= secondTs \div SECONDS_PER_MINUTE

\* ---------------------------------------------------------------- numbers
RECURSIVE GCD(_, _)
GCD(a, b) == IF b = 0 THEN a ELSE GCD(b, a % b)
Rat(n, d) == IF n = 0 THEN <<0, 1>> ELSE <<n \div GCD(n, d), d \div GCD(n, d)>>
RatLess(a, b) == a[1] * b[2] < b[1] * a[2]
RatAdd(a, b) == Rat(a[1] * b[2] + b[1] * a[2], a[2] * b[2])

RECURSIVE SeqSum(_)
SeqSum(s) == IF s = <<>> THEN 0 ELSE Head(s) + SeqSum(Tail(s))
SeqMin(s) == CHOOSE x \in {s[i] : i \in 1..Len(s)} : \A j \in 1..Len(s) : x <= s[j]
SeqMax(s) == CHOOSE x \in {s[i] : i \in 1..Len(s)} : \A j \in 1..Len(s) : x >= s[j]

RECURSIVE RatSum(_)
RatSum(s) == IF s = <<>> THEN <<0, 1>> ELSE RatAdd(Head(s), RatSum(Tail(s)))
RatMin(s) == CHOOSE x \in {s[i] : i \in 1..Len(s)} : \A j \in 1..Len(s) : ~RatLess(s[j], x)
RatMax(s) == CHOOSE x \in {s[i] : i \in 1..Len(s)} : \A j \in 1..Len(s) : ~RatLess(x, s[j])

\* statistics.stdev is kept as an uninterpreted term over its argument.
Stdev(values) == [fn |-> "stdev", of |-> values]

\* ------------------------------------------------------------------ probes
\* A probe run is given by the per-operation latencies it measured
\* (in whole units of time), or fails with an error.
ProbeError == [error |-> TRUE, latencies |-> <<>>]
ProbeRun(latencies) == [error |-> FALSE, latencies |-> latencies]
WriteRuns == { ProbeRun(<<4>>), ProbeError }
ReadRuns == { ProbeRun(<<2, 2>>), ProbeError }

calculate_latency_stats(latencies) ==
  IF latencies = <<>> THEN [min |-> 0, max |-> 0, avg |-> <<0, 1>>, stdev |-> 0]
  ELSE [min |-> SeqMin(latencies), max |-> SeqMax(latencies),
        avg |-> Rat(SeqSum(latencies), Len(latencies)),
        stdev |-> IF Len(latencies) > 1 THEN Stdev(latencies) ELSE 0]

test_io_speed(run) ==
  IF run.error THEN [error |-> TRUE]
  ELSE [error |-> FALSE,
        mbps |-> Rat(Len(run.latencies) * CHUNK_SIZE, MIB * DURATION),
        iops |-> Rat(Len(run.latencies), DURATION),
        latency |-> calculate_latency_stats(run.latencies)]

\* ------------------------------------------------------------------- store
Rowids(table) == {r.rowid : r \in table}
SetMax(S) == CHOOSE x \in S : \A y \in S : y <= x

\* Variant: the insert writes over the newest row of the table.
NextRowidOverNewest(table) == IF table = {} THEN 1 ELSE SetMax(Rowids(table))

\* The tables are declared without an INTEGER PRIMARY KEY, so a new row
\* takes the implicit rowid: one more than the largest rowid in the table.
NextRowid(table) == IF table = {} THEN 1 ELSE SetMax(Rowids(table)) + 1

\* The WHERE clauses of the two DELETE statements of decimate_old_data:
\* the age tier a row's timestamp puts it in at time t.
OldTier(r, t) == TextLess(r.timestamp, SqlDatetime(t, OLD_TIER_SECONDS))
MidTier(r, t) ==
  /\ TextLess(r.timestamp, SqlDatetime(t, KEEP_ALL_SECONDS))
  /\ ~TextLess(r.timestamp, SqlDatetime(t, OLD_TIER_SECONDS))

\* Variant: the first DELETE thins with the modulus of the second.
DeleteOldTierBySix(table, t) ==
  {r \in table : ~(OldTier(r, t) /\ r.rowid % MID_TIER_MODULUS # 0)}

\* Variant: the second DELETE removes every row of its tier.
DeleteMidTierAll(table, t) ==
  {r \in table : ~MidTier(r, t)}

\* The two DELETE statements of decimate_old_data, in order.
DeleteOldTier(table, t) ==
  {r \in table : ~(OldTier(r, t) /\ r.rowid % OLD_TIER_MODULUS # 0)}

DeleteMidTier(table, t) ==
  {r \in table : ~(MidTier(r, t) /\ r.rowid % MID_TIER_MODULUS # 0)}

DecimateTable(table, t) == DeleteMidTier(DeleteOldTier(table, t), t)

\* Outcome of one store operation: it commits, connect_db returns None,
\* sqlite3 raises an sqlite3.Error, or something else is raised.
DbOutcomes == {"ok", "noconn", "sqlerr", "exc"}

\* An operation on a store whose tables were never created fails with an
\* sqlite3.Error ("no such table").
Effective(o, tablesExist) == IF o = "ok" /\ ~tablesExist THEN "sqlerr" ELSE o

\* What a store operation can do on a host: where the store cannot be
\* opened, connect_db returns None every time.
StoreOutcomes(e) ==
  IF "RESOURCE_STATS_DB" \in DOMAIN e THEN {"noconn"} ELSE DbOutcomes

\* Variant: connect_db called with fail_gracefully=False, a failed
\* connection raises.
RaisesUnlessConnected(o) == o \in {"exc", "noconn"}

\* What propagates out of a store operation to main: a failed connection
\* and an sqlite3.Error are turned into a False return.
Raises(o) == o = "exc"

\* ------------------------------------------------------------------- state
VARIABLES
  env,                \* the environment of the host (fixed)
  tz,                 \* local-time offset of the host from UTC (fixed)
  now,                \* UTC clock, seconds
  schema,             \* the four tables exist
  disk_stats, disk_stats_summary, api_stats, api_stats_summary,
  proc,               \* collector process running or last run: "none", "disk", "api"
  pc,                 \* "idle", "main", "loop", "exited"
  config,             \* FILESYSTEM_CONFIG / API_CONFIG of the process
  idx,                \* position of the for loop in config
  timestamp,          \* run_once_and_record's local timestamp
  success_count, error_count,
  exit_code,          \* exit status of the last process, -1 before any
  due,                \* collectors the scheduler has still to launch at this tick
  entered,            \* history: run_once_and_record was entered by this process
  steps,              \* history: what each target of this cycle did
  decimate_calls,     \* history: the decimate_old_data calls of this process
  raised,             \* history: an exception reached main / the interpreter
  assigned,           \* history: every rowid ever given to a disk_stats row
  pass_base,          \* history: disk_stats before the first retention pass
  before,             \* history: disk_stats before the last retention pass
  passed_at,          \* history: time of the last retention pass, -1 before any
  call                \* a function applied on its own: its argument and result

vars == <<env, tz, now, schema, disk_stats, disk_stats_summary, api_stats,
          api_stats_summary, proc, pc, config, idx, timestamp, success_count,
          error_count, exit_code, due, entered, steps, decimate_calls, raised,
          assigned, pass_base, before, passed_at, call>>

storeVars == <<schema, disk_stats, disk_stats_summary, api_stats, api_stats_summary, assigned>>
hostVars == <<env, tz>>
passVars == <<pass_base, before, passed_at>>

current_timestamp == StrfMinute(now + tz)

\* No function is applied on its own.
NoCall == [fn |-> "none", arg |-> <<>>, done |-> FALSE, result |-> <<>>]

\* Time passes up to the next tick of the scheduler, which launches each
\* collector once; the process that has exited is gone.
NextSchedule(t) == t + IdleStep - ((t - StartTime) % IdleStep)

Tick ==
  /\ pc \in {"idle", "exited"}
  /\ NextSchedule(now) <= MaxTime
  /\ now' = NextSchedule(now)
  /\ proc' = "none" /\ pc' = "idle"
  /\ config' = <<>> /\ idx' = 1 /\ timestamp' = 0
  /\ success_count' = 0 /\ error_count' = 0
  /\ exit_code' = 0 - 1
  /\ entered' = FALSE
  /\ steps' = <<>> /\ decimate_calls' = <<>> /\ raised' = "none"
  /\ due' = Collectors
  /\ UNCHANGED <<hostVars, call, storeVars, passVars>>

\* --------------------------------------------------------- disk collector
RECURSIVE SortedRows(_)
SortedRows(table) ==
  IF table = {} THEN <<>>
  ELSE LET first == CHOOSE r \in table : \A q \in table : r.rowid <= q.rowid
       IN <<first>> \o SortedRows(table \ {first})

metric_names == <<"write_mbps", "write_iops", "write_lat_avg",
                  "read_mbps", "read_iops", "read_lat_avg">>

\* Outcome of a step of a target, as the history keeps it.
StepStatus(ok) == IF ok THEN "ok" ELSE "failed"

\* Variant: the read throughput is taken from the write result.
StatEntryMixed(ts, label, write, read) ==
  [timestamp |-> ts, label |-> label,
   write_mbps |-> write.mbps, write_iops |-> write.iops,
   write_lat_avg |-> write.latency.avg,
   read_mbps |-> write.mbps, read_iops |-> read.iops,
   read_lat_avg |-> read.latency.avg]

\* The entry run_once_and_record builds from a write and a read result.
StatEntry(ts, label, write, read) ==
  [timestamp |-> ts, label |-> label,
   write_mbps |-> write.mbps, write_iops |-> write.iops,
   write_lat_avg |-> write.latency.avg,
   read_mbps |-> read.mbps, read_iops |-> read.iops,
   read_lat_avg |-> read.latency.avg]

\* insert_stat_record: the row the INSERT adds to disk_stats.
StatRow(table, record, t) ==
  [rowid |-> NextRowid(table), timestamp |-> record.timestamp,
   hostname |-> HOSTNAME, label |-> record.label,
   write_mbps |-> record.write_mbps, write_iops |-> record.write_iops,
   write_lat_avg |-> record.write_lat_avg, read_mbps |-> record.read_mbps,
   read_iops |-> record.read_iops, read_lat_avg |-> record.read_lat_avg,
   inserted_at |-> t]

\* Variant: a deviation that is not defined is reported as -1.
SummaryOfSentinel(values) ==
  [min |-> RatMin(values), max |-> RatMax(values),
   avg |-> Rat(RatSum(values)[1], RatSum(values)[2] * Len(values)),
   stddev |-> IF Len(values) > 1 THEN Stdev(values) ELSE 0 - 1]

\* The per-metric statistics of compute_and_store_summary.
SummaryOf(values) ==
  [min |-> RatMin(values), max |-> RatMax(values),
   avg |-> Rat(RatSum(values)[1], RatSum(values)[2] * Len(values)),
   stddev |-> IF Len(values) > 1 THEN Stdev(values) ELSE 0]

\* Variant: the rows of every host are selected.
SummaryWindowAnyHost(table, label, t) ==
  {r \in table : /\ r.label = label
                 /\ r.timestamp >= StrfMinute(t + tz - SUMMARY_WINDOW_SECONDS)}

\* The rows selected by the SELECT of compute_and_store_summary at time t.
SummaryWindow(table, label, t) ==
  {r \in table : /\ r.label = label /\ r.hostname = HOSTNAME
                 /\ r.timestamp >= StrfMinute(t + tz - SUMMARY_WINDOW_SECONDS)}

\* insert_summary_stats: one row per metric, in one transaction.
SummaryRows(summaryTable, label, rows, t) ==
  LET sorted == SortedRows(rows)
      base == NextRowid(summaryTable)
  IN { [rowid |-> base + i - 1, timestamp |-> StrfMinute(t + tz),
        hostname |-> HOSTNAME, label |-> label, metric |-> metric_names[i],
        stats |-> SummaryOf([k \in 1..Len(sorted) |-> sorted[k][metric_names[i]]])]
       : i \in 1..Len(metric_names) }

\* Variant: a window without rows is reported as a failure.
compute_and_store_summary_strict(table, summaryTable, label, t, oq, os) ==
  LET q == Effective(oq, schema)
      s == Effective(os, schema)
      rows == SummaryWindow(table, label, t)
  IN IF q # "ok" THEN [result |-> IF q = "exc" THEN "exc" ELSE "failed", added |-> {}]
     ELSE IF rows = {} THEN [result |-> "failed", added |-> {}]
     ELSE IF s # "ok" THEN [result |-> IF s = "exc" THEN "exc" ELSE "failed", added |-> {}]
     ELSE [result |-> "ok", added |-> SummaryRows(summaryTable, label, rows, t)]

\* compute_and_store_summary(label) at time t over the raw table, with the
\* outcome oq of its own connection and query and the outcome os of
\* insert_summary_stats.  result: "ok" (True), "failed" (False), "exc".
compute_and_store_summary(table, summaryTable, label, t, oq, os) ==
  LET q == Effective(oq, schema)
      s == Effective(os, schema)
      rows == SummaryWindow(table, label, t)
  IN IF q # "ok" THEN [result |-> IF q = "exc" THEN "exc" ELSE "failed", added |-> {}]
     ELSE IF rows = {} THEN [result |-> "ok", added |-> {}]
     ELSE IF s # "ok" THEN [result |-> IF s = "exc" THEN "exc" ELSE "failed", added |-> {}]
     ELSE [result |-> "ok", added |-> SummaryRows(summaryTable, label, rows, t)]

\* insert_stat_record(entry) and compute_and_store_summary(label), called
\* at time t for an entry built at the start of the cycle: the tables
\* after it and what it returned.
persist_target(table, summaryTable, entry, t, oi, oq, os) ==
  LET inserted == Effective(oi, schema) = "ok"
      raw == IF inserted THEN table \cup {StatRow(table, entry, t)} ELSE table
      sum == IF inserted
             THEN compute_and_store_summary(raw, summaryTable, entry.label, t, oq, os)
             ELSE [result |-> "skipped", added |-> {}]
  IN [inserted |-> inserted, raw |-> raw, summary |-> sum.result,
      added |-> sum.added, succeeded |-> inserted /\ sum.result = "ok"]

\* The outcomes of insert_summary_stats that matter after the query's.
SummaryInsertOutcomes(oq) == IF oq = "ok" THEN DbOutcomes ELSE {"ok"}

\* The process starts: the module level parses the environment; lists of
\* different lengths raise ValueError before main is entered.
LaunchDisk ==
  /\ pc \in {"idle", "exited"}
  /\ "disk" \in due
  /\ proc' = "disk" /\ due' = due \ {"disk"}
  /\ steps' = <<>> /\ decimate_calls' = <<>> /\ entered' = FALSE
  /\ idx' = 1 /\ success_count' = 0 /\ error_count' = 0 /\ timestamp' = 0
  /\ IF FsConfigError(env)
     THEN /\ pc' = "exited" /\ exit_code' = UNCAUGHT_EXIT
          /\ raised' = "import" /\ config' = <<>>
     ELSE /\ pc' = "main" /\ exit_code' = 0 - 1
          /\ raised' = "none" /\ config' = FILESYSTEM_CONFIG(env)
  /\ UNCHANGED <<hostVars, call, now, storeVars, passVars>>

\* init_db: connect and create the tables; sqlite3.Error and a failed
\* connection are swallowed, anything else propagates.
init_db(o) == IF o = "ok" THEN TRUE ELSE schema

\* main up to the loop of run_once_and_record.
DiskMain ==
  /\ proc = "disk" /\ pc = "main"
  /\ IF config = <<>>
     THEN /\ pc' = "exited" /\ exit_code' = 1
          /\ UNCHANGED <<schema, timestamp, raised, entered>>
     ELSE \E o \in StoreOutcomes(env) :
            IF Raises(o)
            THEN /\ pc' = "exited" /\ exit_code' = 1 /\ raised' = "main"
                 /\ UNCHANGED <<schema, timestamp, entered>>
            ELSE /\ schema' = init_db(o)
                 /\ pc' = "loop" /\ timestamp' = current_timestamp
                 /\ entered' = TRUE
                 /\ UNCHANGED <<exit_code, raised>>
  /\ UNCHANGED <<hostVars, call, now, disk_stats, disk_stats_summary, api_stats,
                 api_stats_summary, assigned, passVars, proc, config, idx,
                 success_count, error_count, due, steps, decimate_calls>>

\* Variant: the empty path passes the reachability check like any other.
ReachOutcomesAnyPath(path) == {"ok", "notdir", "nowrite", "exc"}

\* What the reachability check of a path can find: os.path.isdir("") is
\* False.
ReachOutcomes(path) ==
  IF path = <<>> THEN {"notdir"} ELSE {"ok", "notdir", "nowrite", "exc"}

\* 'error' in write or 'error' in read
ProbeFailed(write, read) == write.error \/ read.error

\* Variant: the loop is left at the first target that fails.
LoopAfterBreak(i, succeeded, n) == IF succeeded THEN i + 1 ELSE n + 1

\* Variant: the loop is left after its first target.
LoopDoneAfterFirst(i, n) == i > 1

\* The for loop: after target i of n the loop goes on with target i + 1,
\* whether or not target i succeeded.
LoopAfter(i, succeeded, n) == i + 1
LoopDone(i, n) == i > n

NoStep == [target |-> idx, reach |-> "skipped", probes |-> "skipped",
           insert |-> "skipped", summary |-> "skipped", raw_rows |-> {},
           summary_rows |-> 0, measured |-> <<>>]

\* Variant: the raw row of a target that failed is taken back.
EndTargetRollback(succeeded, step, raw, summary) ==
  /\ success_count' = IF succeeded THEN success_count + 1 ELSE success_count
  /\ error_count' = IF succeeded THEN error_count ELSE error_count + 1
  /\ steps' = Append(steps, step)
  /\ idx' = LoopAfter(idx, succeeded, Len(config))
  /\ disk_stats' = IF succeeded THEN raw ELSE disk_stats
  /\ disk_stats_summary' = summary
  /\ assigned' = assigned \cup Rowids(raw)

\* End of one loop iteration.
EndTarget(succeeded, step, raw, summary) ==
  /\ success_count' = IF succeeded THEN success_count + 1 ELSE success_count
  /\ error_count' = IF succeeded THEN error_count ELSE error_count + 1
  /\ steps' = Append(steps, step)
  /\ idx' = LoopAfter(idx, succeeded, Len(config))
  /\ disk_stats' = raw
  /\ disk_stats_summary' = summary
  /\ assigned' = assigned \cup Rowids(raw)

\* One iteration of the for loop of run_once_and_record.
DiskTarget ==
  /\ proc = "disk" /\ pc = "loop" /\ ~LoopDone(idx, Len(config))
  /\ LET path == config[idx].key
         label == config[idx].val
     IN \E reach \in ReachOutcomes(path) :
          IF reach # "ok"
          THEN EndTarget(FALSE, [NoStep EXCEPT !.reach = "failed"],
                         disk_stats, disk_stats_summary)
          ELSE \E wr \in WriteRuns, rr \in ReadRuns :
            LET write == test_io_speed(wr)
                read == test_io_speed(rr)
                reached == [NoStep EXCEPT !.reach = "ok"]
            IN IF ProbeFailed(write, read)
               THEN EndTarget(FALSE, [reached EXCEPT !.probes = "failed"],
                              disk_stats, disk_stats_summary)
               ELSE \E oi \in StoreOutcomes(env) :
                 LET entry == StatEntry(timestamp, label, write, read)
                     probed == [reached EXCEPT !.probes = "ok",
                                               !.measured = <<write, read>>]
                     row == StatRow(disk_stats, entry, now)
                     raw == disk_stats \cup {row}
                 IN IF Effective(oi, schema) # "ok"
                    THEN EndTarget(FALSE, [probed EXCEPT !.insert = "failed"],
                                   disk_stats, disk_stats_summary)
                    ELSE \E oq \in StoreOutcomes(env) : \E os \in SummaryInsertOutcomes(oq) :
                      LET sum == compute_and_store_summary(raw, disk_stats_summary,
                                                           label, now, oq, os)
                      IN EndTarget(sum.result = "ok",
                                   [probed EXCEPT !.insert = "ok",
                                                  !.summary = StepStatus(sum.result = "ok"),
                                                  !.raw_rows = {row.rowid},
                                                  !.summary_rows = Cardinality(sum.added)],
                                   raw, disk_stats_summary \cup sum.added)
  /\ UNCHANGED <<hostVars, call, now, schema, api_stats, api_stats_summary, passVars, proc, pc,
                 config, timestamp, exit_code, due, entered, decimate_calls, raised>>

\* decimate_old_data with outcome o: the table after the pass.
decimate_old_data(table, t, o) ==
  IF Effective(o, schema) = "ok" THEN DecimateTable(table, t) ELSE table

\* Variant: a failed retention pass fails the cycle.
disk_collection_success_strict(count, decimate_success) == count > 0 /\ decimate_success

\* return success_count > 0: the retention pass is not counted.
disk_collection_success(count, decimate_success) == count > 0

\* main: the exit status.
main_exit(collection_success) == IF ~collection_success THEN 1 ELSE 0

\* After the loop: the retention pass, the return of run_once_and_record
\* and the exit status of main.
DiskFinish ==
  /\ proc = "disk" /\ pc = "loop" /\ LoopDone(idx, Len(config))
  /\ \E o \in StoreOutcomes(env) :
       /\ disk_stats' = decimate_old_data(disk_stats, now, o)
       /\ decimate_calls' = Append(decimate_calls,
             [at |-> Len(steps), success |-> Effective(o, schema) = "ok"])
       /\ raised' = IF Raises(o) THEN "main" ELSE raised
       /\ exit_code' = IF Raises(o) THEN 1
                       ELSE main_exit(disk_collection_success(success_count,
                                                              Effective(o, schema) = "ok"))
  /\ pc' = "exited"
  /\ UNCHANGED <<hostVars, call, now, schema, disk_stats_summary, api_stats, api_stats_summary,
                 assigned, passVars, proc, config, idx, timestamp, success_count,
                 error_count, due, entered, steps>>

\* ---------------------------------------------------------- API collector
\* What requests.get can do: a response with a status code after some
\* milliseconds, or an exception of one of the classes test_api_endpoint
\* tells apart, with its text.
HttpResponse(code, ms) == [kind |-> "response", status_code |-> code, elapsed_ms |-> ms]
HttpFailure(kind, ms, detail) ==
  [kind |-> kind, status_code |-> 0, elapsed_ms |-> ms, detail |-> detail]
\* The servers considered: the one behind endpoint "u" answers 200 or does
\* not answer in time, any other answers 500 or does not answer in time.
GetOutcomes(url) ==
  { IF url = <<"u">> THEN HttpResponse(200, 120) ELSE HttpResponse(500, 80),
    HttpFailure("Timeout", REQUEST_TIMEOUT * 1000, <<>>) }

NoMessage == [text |-> "None", detail |-> <<>>]

\* Variant: the text of the exception is copied whole.
TruncateNever(str, n) == str

\* str(e)[:n]
Truncate(str, n) == SubSeq(str, 1, Min2(Len(str), n))

\* Variant: status code 300 counts as a success.
IsSuccessUpTo300(code) == 200 <= code /\ code <= 300

\* 200 <= response.status_code < 300
IsSuccess(code) == 200 <= code /\ code < 300

test_api_endpoint(get) ==
  IF get.kind = "response"
  THEN [response_time_ms |-> <<get.elapsed_ms, 1>>,
        status_code |-> get.status_code,
        success |-> IsSuccess(get.status_code),
        error_message |-> IF IsSuccess(get.status_code)
                          THEN NoMessage
                          ELSE [text |-> "HTTP ", detail |-> <<get.status_code>>]]
  ELSE IF get.kind = "Timeout"
  THEN [response_time_ms |-> <<REQUEST_TIMEOUT * 1000, 1>>, status_code |-> 0,
        success |-> FALSE, error_message |-> [text |-> "Request timeout", detail |-> <<>>]]
  ELSE [response_time_ms |-> <<get.elapsed_ms, 1>>, status_code |-> 0, success |-> FALSE,
        error_message |->
          [text |-> IF get.kind = "ConnectionError" THEN "Connection error: "
                    ELSE IF get.kind = "RequestException" THEN "Request error: "
                    ELSE "Unexpected error: ",
           detail |-> Truncate(get.detail, DETAIL_LIMIT)]]

\* insert_api_record: the row the INSERT adds to api_stats.
ApiRow(table, record, t) ==
  [rowid |-> NextRowid(table), timestamp |-> record.timestamp,
   hostname |-> HOSTNAME, api_name |-> record.api_name,
   endpoint_url |-> record.endpoint_url,
   response_time_ms |-> record.response_time_ms, status_code |-> record.status_code,
   success |-> record.success, error_message |-> record.error_message,
   inserted_at |-> t]

ApiSummaryWindow(table, api_name, t) ==
  {r \in table : /\ r.api_name = api_name /\ r.hostname = HOSTNAME
                 /\ r.timestamp >= StrfMinute(t + tz - SUMMARY_WINDOW_SECONDS)}

api_metric_names == <<"response_time_ms", "status_code">>

\* insert_api_summary_stats: one row per metric, in one transaction.
ApiSummaryRows(summaryTable, api_name, rows, t) ==
  LET sorted == SortedRows(rows)
      n == Len(sorted)
      base == NextRowid(summaryTable)
      successes == Cardinality({k \in 1..n : sorted[k].success})
      values(i) == IF i = 1 THEN [k \in 1..n |-> sorted[k].response_time_ms]
                   ELSE [k \in 1..n |-> <<sorted[k].status_code, 1>>]
  IN { [rowid |-> base + i - 1, timestamp |-> StrfMinute(t + tz),
        hostname |-> HOSTNAME, api_name |-> api_name, metric |-> api_metric_names[i],
        stats |-> SummaryOf(values(i)), success_rate |-> Rat(successes, n)]
       : i \in 1..Len(api_metric_names) }

\* Variant: a window without rows is reported as a failure.
compute_and_store_api_summary_strict(table, summaryTable, api_name, t, oq, os) ==
  LET q == Effective(oq, schema)
      s == Effective(os, schema)
      rows == ApiSummaryWindow(table, api_name, t)
  IN IF q # "ok" THEN [result |-> IF q = "exc" THEN "exc" ELSE "failed", added |-> {}]
     ELSE IF rows = {} THEN [result |-> "failed", added |-> {}]
     ELSE IF s # "ok" THEN [result |-> IF s = "exc" THEN "exc" ELSE "failed", added |-> {}]
     ELSE [result |-> "ok", added |-> ApiSummaryRows(summaryTable, api_name, rows, t)]

\* compute_and_store_api_summary(api_name) at time t over the raw table.
compute_and_store_api_summary(table, summaryTable, api_name, t, oq, os) ==
  LET q == Effective(oq, schema)
      s == Effective(os, schema)
      rows == ApiSummaryWindow(table, api_name, t)
  IN IF q # "ok" THEN [result |-> IF q = "exc" THEN "exc" ELSE "failed", added |-> {}]
     ELSE IF rows = {} THEN [result |-> "ok", added |-> {}]
     ELSE IF s # "ok" THEN [result |-> IF s = "exc" THEN "exc" ELSE "failed", added |-> {}]
     ELSE [result |-> "ok", added |-> ApiSummaryRows(summaryTable, api_name, rows, t)]

\* insert_api_record(entry) and compute_and_store_api_summary(api_name),
\* called at time t for an entry built at the start of the cycle.
persist_api_target(table, summaryTable, entry, t, oi, oq, os) ==
  LET inserted == Effective(oi, schema) = "ok"
      raw == IF inserted THEN table \cup {ApiRow(table, entry, t)} ELSE table
      sum == IF inserted
             THEN compute_and_store_api_summary(raw, summaryTable, entry.api_name,
                                                t, oq, os)
             ELSE [result |-> "skipped", added |-> {}]
  IN [inserted |-> inserted, raw |-> raw, summary |-> sum.result,
      added |-> sum.added, succeeded |-> inserted /\ sum.result = "ok"]

\* The outcomes of insert_api_summary_stats that matter after the query's.
ApiSummaryInsertOutcomes(oq) == IF oq = "ok" THEN DbOutcomes ELSE {"ok"}

LaunchApi ==
  /\ pc \in {"idle", "exited"}
  /\ "api" \in due
  /\ proc' = "api" /\ due' = due \ {"api"}
  /\ steps' = <<>> /\ decimate_calls' = <<>> /\ entered' = FALSE
  /\ idx' = 1 /\ success_count' = 0 /\ error_count' = 0 /\ timestamp' = 0
  /\ IF ApiConfigError(env)
     THEN /\ pc' = "exited" /\ exit_code' = UNCAUGHT_EXIT
          /\ raised' = "import" /\ config' = <<>>
     ELSE /\ pc' = "main" /\ exit_code' = 0 - 1
          /\ raised' = "none" /\ config' = API_CONFIG(env)
  /\ UNCHANGED <<hostVars, call, now, storeVars, passVars>>

\* return success_count > 0 or len(API_CONFIG) == 0
api_collection_success(count, n) == count > 0 \/ n = 0

\* main up to the loop of run_once_and_record; with no endpoint configured
\* run_once_and_record returns True at once.
ApiMain ==
  /\ proc = "api" /\ pc = "main"
  /\ \E o \in StoreOutcomes(env) :
       IF Raises(o)
       THEN /\ pc' = "exited" /\ exit_code' = 1 /\ raised' = "main"
            /\ UNCHANGED <<schema, timestamp, entered>>
       ELSE /\ schema' = init_db(o)
            /\ entered' = TRUE
            /\ IF config = <<>>
               THEN /\ pc' = "exited" /\ exit_code' = main_exit(TRUE)
                    /\ UNCHANGED timestamp
               ELSE /\ pc' = "loop" /\ timestamp' = current_timestamp
                    /\ UNCHANGED exit_code
            /\ UNCHANGED raised
  /\ UNCHANGED <<hostVars, call, now, disk_stats, disk_stats_summary, api_stats,
                 api_stats_summary, assigned, passVars, proc, config, idx,
                 success_count, error_count, due, steps, decimate_calls>>

\* The entry run_once_and_record builds from the result of the probe.
ApiEntry(ts, endpoint_url, api_name, result) ==
  [timestamp |-> ts, api_name |-> api_name, endpoint_url |-> endpoint_url,
   response_time_ms |-> result.response_time_ms,
   status_code |-> result.status_code, success |-> result.success,
   error_message |-> result.error_message]

\* Variant: a target whose HTTP check failed is counted as failed.
api_target_success_checked(result, inserted, summarised) ==
  result.success /\ inserted /\ summarised

\* if insert_api_record(entry) and compute_and_store_api_summary(api_name)
api_target_success(result, inserted, summarised) == inserted /\ summarised

\* End of one loop iteration.
EndApiTarget(succeeded, step, raw, summary) ==
  /\ success_count' = IF succeeded THEN success_count + 1 ELSE success_count
  /\ error_count' = IF succeeded THEN error_count ELSE error_count + 1
  /\ steps' = Append(steps, step)
  /\ idx' = LoopAfter(idx, succeeded, Len(config))
  /\ api_stats' = raw
  /\ api_stats_summary' = summary

\* One iteration of the for loop of run_once_and_record.
ApiTarget ==
  /\ proc = "api" /\ pc = "loop" /\ ~LoopDone(idx, Len(config))
  /\ LET endpoint_url == config[idx].key
         api_name == config[idx].val
     IN \E get \in GetOutcomes(endpoint_url), oi \in StoreOutcomes(env) :
          LET result == test_api_endpoint(get)
              entry == ApiEntry(timestamp, endpoint_url, api_name, result)
              probed == [NoStep EXCEPT !.reach = "ok", !.probes = "ok",
                                       !.measured = <<result>>]
              row == ApiRow(api_stats, entry, now)
              raw == api_stats \cup {row}
          IN IF Effective(oi, schema) # "ok"
             THEN EndApiTarget(api_target_success(result, FALSE, FALSE),
                               [probed EXCEPT !.insert = "failed"],
                               api_stats, api_stats_summary)
             ELSE \E oq \in StoreOutcomes(env) : \E os \in ApiSummaryInsertOutcomes(oq) :
               LET sum == compute_and_store_api_summary(raw, api_stats_summary,
                                                        api_name, now, oq, os)
               IN EndApiTarget(api_target_success(result, TRUE, sum.result = "ok"),
                               [probed EXCEPT !.insert = "ok",
                                              !.summary = StepStatus(sum.result = "ok"),
                                              !.raw_rows = {row.rowid},
                                              !.summary_rows = Cardinality(sum.added)],
                               raw, api_stats_summary \cup sum.added)
  /\ UNCHANGED <<hostVars, call, now, schema, disk_stats, disk_stats_summary, assigned,
                 passVars, proc, pc, config, timestamp, exit_code, due, entered,
                 decimate_calls, raised>>

\* After the loop: the return of run_once_and_record and the exit status.
\* No retention pass is made over api_stats.
ApiFinish ==
  /\ proc = "api" /\ pc = "loop" /\ LoopDone(idx, Len(config))
  /\ exit_code' = main_exit(api_collection_success(success_count, Len(config)))
  /\ pc' = "exited"
  /\ UNCHANGED <<hostVars, call, now, storeVars, passVars, proc, config, idx, timestamp,
                 success_count, error_count, due, entered, steps, decimate_calls,
                 raised>>

\* ------------------------------------------------------------ the system
InitOn(hosts) ==
  /\ \E h \in hosts : env = h.env /\ tz = h.tz
  /\ now = StartTime
  /\ schema = FALSE
  /\ disk_stats = {} /\ disk_stats_summary = {}
  /\ api_stats = {} /\ api_stats_summary = {}
  /\ proc = "none" /\ pc = "idle"
  /\ config = <<>> /\ idx = 1 /\ timestamp = 0
  /\ success_count = 0 /\ error_count = 0
  /\ exit_code = 0 - 1
  /\ due = Collectors
  /\ entered = FALSE
  /\ steps = <<>> /\ decimate_calls = <<>> /\ raised = "none"
  /\ assigned = {}
  /\ pass_base = {} /\ before = {} /\ passed_at = 0 - 1
  /\ call = NoCall

Init == InitOn(Hosts)

Next ==
  \/ Tick
  \/ LaunchDisk
  \/ DiskMain
  \/ DiskTarget
  \/ DiskFinish
  \/ LaunchApi
  \/ ApiMain
  \/ ApiTarget
  \/ ApiFinish

Spec == Init /\ [][Next]_vars

\* ------------------------------------------------- retention runs alone
\* decimate_old_data applied again and again to a stored table, with time
\* passing between the passes and no insert: the tables considered hold
\* rows of every rowid class at ages on and around the tier boundaries.
RetRowids == {5, 6, 60}
RetAgesMinutes == {0, 1439, 1440, 4319, 4320, 6000}

RetRow(id, age) == [rowid |-> id, timestamp |-> StrfMinute(StartTime) - age]

RetTables ==
  { {RetRow(id, f[id]) : id \in D} :
      D \in SUBSET RetRowids, f \in [RetRowids -> RetAgesMinutes] }

RetInit ==
  /\ env = Defaults /\ tz = 0
  /\ now = StartTime
  /\ schema = TRUE
  /\ disk_stats \in RetTables
  /\ disk_stats_summary = {} /\ api_stats = {} /\ api_stats_summary = {}
  /\ proc = "none" /\ pc = "idle"
  /\ config = <<>> /\ idx = 1 /\ timestamp = 0
  /\ success_count = 0 /\ error_count = 0
  /\ exit_code = 0 - 1
  /\ due = {}
  /\ entered = FALSE
  /\ steps = <<>> /\ decimate_calls = <<>> /\ raised = "none"
  /\ assigned = Rowids(disk_stats)
  /\ pass_base = disk_stats /\ before = disk_stats /\ passed_at = 0 - 1
  /\ call = NoCall

\* One call of decimate_old_data at the current time.
RetPass ==
  /\ \E o \in DbOutcomes \ {"exc"} :
       /\ disk_stats' = decimate_old_data(disk_stats, now, o)
       /\ IF Effective(o, schema) = "ok"
          THEN before' = disk_stats /\ passed_at' = now
          ELSE UNCHANGED <<before, passed_at>>
  /\ UNCHANGED <<hostVars, call, now, schema, disk_stats_summary, api_stats,
                 api_stats_summary, assigned, pass_base, proc, pc, config, idx,
                 timestamp, success_count, error_count, exit_code, due, entered,
                 steps, decimate_calls, raised>>

\* Time passes between two passes.
RetWait ==
  /\ now + RetStep <= RetHorizon
  /\ now' = now + RetStep
  /\ UNCHANGED <<hostVars, call, storeVars, passVars, proc, pc, config, idx, timestamp,
                 success_count, error_count, exit_code, due, entered, steps,
                 decimate_calls, raised>>

RetNext ==
  \/ RetPass
  \/ RetWait

RetSpec == RetInit /\ [][RetNext]_vars

\* ----------------------------------------------------------------- claims
\* A target completed all of its steps: reachability check and probes,
\* raw insert, summary step.
Completed(step) ==
  /\ step.reach = "ok" /\ step.probes = "ok"
  /\ step.insert = "ok" /\ step.summary = "ok"

Collecting == proc \in Collectors

\* C1: a collector run with at least one configured target exits with 0
\* exactly when at least one target completed all of its steps in this
\* cycle and with 1 otherwise, whatever the retention pass returned; an
\* unexpected exception reaching main gives exit code 1.
C1_ExitCode ==
  (Collecting /\ pc = "exited" /\ raised # "import" /\ Len(config) >= 1)
  => IF raised = "main" THEN exit_code = 1
     ELSE /\ exit_code \in {0, 1}
          /\ exit_code = 0 <=> \E i \in 1..Len(steps) : Completed(steps[i])

\* A disk cycle with a failed target, a completed one and a failed retention
\* pass, exiting with 0.
C1_Witness ==
  /\ proc = "disk" /\ pc = "exited" /\ raised = "none" /\ exit_code = 0
  /\ \E i \in 1..Len(steps) : ~Completed(steps[i])
  /\ \E i \in 1..Len(steps) : Completed(steps[i])
  /\ Len(decimate_calls) = 1 /\ ~decimate_calls[1].success

\* The rows this disk cycle stored for the target of step i.
CycleRows(i) ==
  {r \in disk_stats : /\ r.label = config[steps[i].target].val
                      /\ r.inserted_at = now}
CycleSummaryRows(i) ==
  {r \in disk_stats_summary : /\ r.label = config[steps[i].target].val
                              /\ r.timestamp = current_timestamp}

\* C2: in a disk cycle a target whose write or read probe returned an error
\* gets no disk_stats row and no disk_stats_summary row in that cycle, and
\* every raw row stored carries the six metrics of the one successful
\* write and read probe pair of its target in that cycle.
C2_ProbeErrorStoresNothing ==
  proc = "disk" =>
    \A i \in 1..Len(steps) :
      /\ steps[i].probes # "ok" => CycleRows(i) = {} /\ CycleSummaryRows(i) = {}
      /\ \A r \in CycleRows(i) :
           /\ steps[i].probes = "ok"
           /\ Len(steps[i].measured) = 2
           /\ LET write == steps[i].measured[1]
                  read == steps[i].measured[2]
              IN /\ ~write.error /\ ~read.error
                 /\ r.write_mbps = write.mbps /\ r.write_iops = write.iops
                 /\ r.write_lat_avg = write.latency.avg
                 /\ r.read_mbps = read.mbps /\ r.read_iops = read.iops
                 /\ r.read_lat_avg = read.latency.avg

\* A disk cycle in which one target's probe failed after a successful
\* reachability check while another target's row and summary were stored.
C2_Witness ==
  /\ proc = "disk" /\ pc = "loop" /\ schema
  /\ \E i \in 1..Len(steps) : steps[i].reach = "ok" /\ steps[i].probes = "failed"
  /\ \E i \in 1..Len(steps) : CycleRows(i) # {} /\ CycleSummaryRows(i) # {}

\* C3: within one cycle every configured target is attempted exactly once,
\* in configuration order: the k-th attempt is target k whatever the
\* earlier targets did, no attempt is pending only while the loop runs, and
\* a cycle that ran to its end attempted every target.
C3_EveryTargetOnce ==
  Collecting =>
    /\ Len(steps) <= Len(config)
    /\ \A i \in 1..Len(steps) : steps[i].target = i
    /\ pc = "loop" => idx = Len(steps) + 1
    /\ (pc = "exited" /\ entered) => Len(steps) = Len(config)

\* A cycle whose first target failed and whose second target was probed
\* and recorded.
C3_Witness ==
  /\ proc = "disk" /\ pc = "exited" /\ Len(steps) = 2
  /\ ~Completed(steps[1]) /\ Completed(steps[2])
  /\ steps[2].raw_rows \subseteq Rowids(disk_stats)
  /\ steps[2].raw_rows # {}

\* The age by the clock of the store of the minute a row's timestamp names.
AgeSeconds(r, t) == t - r.timestamp * SECONDS_PER_MINUTE

\* The retention policy: which rows a pass at time t is to keep.
Keeps(r, t) ==
  \/ AgeSeconds(r, t) < KEEP_ALL_SECONDS
  \/ /\ KEEP_ALL_SECONDS <= AgeSeconds(r, t) /\ AgeSeconds(r, t) < OLD_TIER_SECONDS
     /\ r.rowid % MID_TIER_MODULUS = 0
  \/ /\ OLD_TIER_SECONDS <= AgeSeconds(r, t)
     /\ r.rowid % OLD_TIER_MODULUS = 0

\* C4: after one decimate_old_data pass at time t over disk_stats a row
\* remains exactly when its timestamp lies within the last day, or it is
\* between 1 and 3 days old with a rowid that is a multiple of 6, or more
\* than 3 days old with a rowid that is a multiple of 60; the two age tiers
\* of the DELETE statements are disjoint and cover every row at least one
\* day old.
C4_OnePass ==
  passed_at >= 0 =>
    /\ disk_stats = {r \in before : Keeps(r, passed_at)}
    /\ \A r \in before :
         /\ ~(OldTier(r, passed_at) /\ MidTier(r, passed_at))
         /\ (OldTier(r, passed_at) \/ MidTier(r, passed_at))
              <=> AgeSeconds(r, passed_at) >= KEEP_ALL_SECONDS
         /\ OldTier(r, passed_at) <=> AgeSeconds(r, passed_at) >= OLD_TIER_SECONDS

\* A pass that kept a row of the 1-to-3-day tier with rowid 6 and one of
\* the older tier with rowid 60, and deleted a row of the older tier whose
\* rowid is a multiple of 6 only.
C4_Witness ==
  /\ passed_at >= 0
  /\ \E r \in before \ disk_stats :
       OldTier(r, passed_at) /\ r.rowid % MID_TIER_MODULUS = 0
  /\ \E r \in disk_stats : OldTier(r, passed_at)
  /\ \E r \in before \ disk_stats : MidTier(r, passed_at)

\* C5: a retention pass never deletes a disk_stats row inserted less than
\* 24 hours of real time before the pass, on a host of any local-time
\* offset.
C5_YoungRowsKept ==
  [][\A r \in disk_stats \ disk_stats' : now - r.inserted_at >= KEEP_ALL_SECONDS]_vars

\* C6: each newly inserted disk_stats row receives a rowid greater than
\* every rowid ever assigned to a row of that table before.
C6_RowidNeverReused ==
  [][\A r \in disk_stats' \ disk_stats : \A a \in assigned : r.rowid > a]_vars

\* C7: repeated retention passes converge: after passes at times
\* t1 <= ... <= tn over a stored table exactly the rows remain that one
\* pass at tn over the original table leaves, and another pass at tn
\* deletes nothing.
C7_PassesConverge ==
  passed_at >= 0 =>
    /\ disk_stats = DecimateTable(pass_base, passed_at)
    /\ DecimateTable(disk_stats, passed_at) = disk_stats

\* Two passes at different times, each of which deleted rows.
C7_Witness ==
  /\ passed_at > StartTime
  /\ before # pass_base
  /\ disk_stats # before
  /\ disk_stats # {}

\* C8: in a disk cycle decimate_old_data is invoked exactly once, after the
\* last configured target and never between targets, whatever the targets
\* did: no call while the loop runs, and one call, made when every target
\* has been processed, once the cycle has ended.
C8_DecimateOnce ==
  proc = "disk" =>
    /\ Len(decimate_calls) <= 1
    /\ \A k \in 1..Len(decimate_calls) : decimate_calls[k].at = Len(config)
    /\ pc = "loop" => decimate_calls = <<>>
    /\ (pc = "exited" /\ entered) => Len(decimate_calls) = 1

\* A disk cycle in which every one of two targets failed and the retention
\* pass was run.
C8_Witness ==
  /\ proc = "disk" /\ pc = "exited" /\ entered
  /\ Len(steps) = 2 /\ success_count = 0 /\ error_count = 2
  /\ Len(decimate_calls) = 1 /\ decimate_calls[1].at = 2

\* C9: after an API collection cycle completes, api_stats holds no row
\* older than 3 days whose rowid is not a multiple of 60 and no row between
\* 1 and 3 days old whose rowid is not a multiple of 6.
C9_ApiCycleEndsThinned ==
  (proc = "api" /\ pc = "exited" /\ entered /\ raised = "none") =>
    \A r \in api_stats :
      /\ ~(OldTier(r, now) /\ r.rowid % OLD_TIER_MODULUS # 0)
      /\ ~(MidTier(r, now) /\ r.rowid % MID_TIER_MODULUS # 0)

\* No target is configured for collector c in environment e.
ZeroTargets(c, e) ==
  IF c = "disk" THEN NonEmpty(fs_paths(e)) = <<>> ELSE api_endpoints(e) = <<>>

\* No probe was run in this cycle.
NoProbeRun == \A i \in 1..Len(steps) : steps[i].probes = "skipped" /\ steps[i].measured = <<>>

HttpStatusCodes == {100, 199, 200, 201, 204, 299, 300, 301, 404, 500, 503, 599}
ElapsedMs == {0, 120, 29999}
FailureKinds == {"Timeout", "ConnectionError", "RequestException", "Exception"}
DetailLengths == {0, 1, 99, 100, 101, 150}
ExceptionText(n) == [i \in 1..n |-> Digit(i % 10)]

GetInputs ==
  {HttpResponse(c, ms) : c \in HttpStatusCodes, ms \in ElapsedMs}
  \cup {HttpFailure(k, ms, ExceptionText(n)) :
          k \in FailureKinds, ms \in {20, 30000}, n \in DetailLengths}

\* Every variable of the collectors at rest.
Quiet ==
  /\ env = Defaults /\ tz = 0
  /\ now = StartTime
  /\ proc = "none" /\ pc = "idle"
  /\ config = <<>> /\ idx = 1 /\ timestamp = 0
  /\ success_count = 0 /\ error_count = 0
  /\ exit_code = 0 - 1
  /\ due = {}
  /\ entered = FALSE
  /\ steps = <<>> /\ decimate_calls = <<>> /\ raised = "none"
  /\ assigned = {}
  /\ pass_base = {} /\ before = {} /\ passed_at = 0 - 1

AtRest ==
  /\ Quiet
  /\ disk_stats = {} /\ disk_stats_summary = {}
  /\ api_stats = {} /\ api_stats_summary = {}

restVars == <<env, tz, now, schema, disk_stats, disk_stats_summary, api_stats,
              api_stats_summary, proc, pc, config, idx, timestamp, success_count,
              error_count, exit_code, due, entered, steps, decimate_calls, raised,
              assigned, pass_base, before, passed_at>>

ApiProbeInit ==
  /\ AtRest /\ schema = FALSE
  /\ \E get \in GetInputs :
       call = [fn |-> "test_api_endpoint", arg |-> get, done |-> FALSE, result |-> <<>>]

\* The call returns.
ApiProbeCall ==
  /\ call.fn = "test_api_endpoint" /\ ~call.done
  /\ call' = [call EXCEPT !.done = TRUE, !.result = test_api_endpoint(call.arg)]
  /\ UNCHANGED restVars

ApiProbeNext ==
  \/ ApiProbeCall

ApiProbeSpec == ApiProbeInit /\ [][ApiProbeNext]_vars

\* The result of a finished call of test_api_endpoint; transport-level
\* failures are the exceptions of requests.get.
ProbeReturned == call.fn = "test_api_endpoint" /\ call.done
TransportFailure(get) == get.kind # "response"

\* C11: test_api_endpoint returns, for every outcome of the GET, a result
\* with all four fields in which success = (200 <= status_code < 300),
\* error_message is null exactly when success is true, and status_code is
\* 0 exactly for transport-level failures, whose error_message is not null.
C11_ProbeTotal ==
  ProbeReturned =>
    /\ DOMAIN call.result = {"response_time_ms", "status_code", "success", "error_message"}
    /\ call.result.success <=> (200 <= call.result.status_code /\ call.result.status_code < 300)
    /\ call.result.error_message = NoMessage <=> call.result.success
    /\ call.result.status_code = 0 <=> TransportFailure(call.arg)
    /\ TransportFailure(call.arg) => call.result.error_message # NoMessage
    /\ ~TransportFailure(call.arg) => call.result.status_code = call.arg.status_code

\* A response with status code 300 was turned into a failed result that
\* carries a message.
C11_Witness ==
  /\ ProbeReturned /\ call.arg.kind = "response" /\ call.arg.status_code = 300
  /\ ~call.result.success /\ call.result.error_message # NoMessage

\* An exception of requests.get that is neither a timeout nor a connection
\* failure.
OtherFailure(get) == get.kind \in {"RequestException", "Exception"}

IsPrefix(a, b) == Len(a) <= Len(b) /\ SubSeq(b, 1, Len(a)) = a

\* C12 as stated: every API probe failure that is neither a timeout nor a
\* connection failure gives status_code 0, success false and an
\* error_message that starts with "Unexpected error: " followed by at most
\* 100 characters of the failure detail.
C12_UnexpectedErrorMessage ==
  (ProbeReturned /\ OtherFailure(call.arg)) =>
    /\ call.result.status_code = 0 /\ ~call.result.success
    /\ call.result.error_message.text = "Unexpected error: "
    /\ Len(call.result.error_message.detail) <= 100
    /\ IsPrefix(call.result.error_message.detail, call.arg.detail)

\* C12, amended: such a failure gives status_code 0, success false and an
\* error_message that starts with "Request error: " when the failure is
\* another requests.exceptions.RequestException and with
\* "Unexpected error: " for any other exception, followed by the first 100
\* characters of the failure detail (all of it when it is shorter).
C12_OtherFailureMessage ==
  (ProbeReturned /\ OtherFailure(call.arg)) =>
    /\ call.result.status_code = 0 /\ ~call.result.success
    /\ call.result.error_message.text =
         IF call.arg.kind = "RequestException" THEN "Request error: "
         ELSE "Unexpected error: "
    /\ Len(call.result.error_message.detail) <= 100
    /\ IsPrefix(call.result.error_message.detail, call.arg.detail)
    /\ Len(call.result.error_message.detail) < 100
         => call.result.error_message.detail = call.arg.detail

\* A generic exception with a text of 150 characters was reported with the
\* first 100 of them.
C12_Witness ==
  /\ ProbeReturned /\ call.arg.kind = "Exception" /\ Len(call.arg.detail) = 150
  /\ call.result.error_message.text = "Unexpected error: "
  /\ Len(call.result.error_message.detail) = 100

\* The rows this API cycle stored for the target of step i.
CycleApiRows(i) ==
  {r \in api_stats : /\ r.endpoint_url = config[steps[i].target].key
                     /\ r.inserted_at = now}
CycleApiSummaryRows(i) ==
  {r \in api_stats_summary : /\ r.api_name = config[steps[i].target].val
                             /\ r.timestamp = current_timestamp}

\* C13: in an API cycle the result of every probe whose insert the store
\* accepted is one api_stats row carrying that result, whether the probe
\* met a 2xx response, another response or a timeout; the targets counted
\* as succeeded are those whose row and summary were stored; and a cycle
\* with such a target exits with code 0 even when every endpoint failed
\* its HTTP check.
C13_EveryResultStored ==
  proc = "api" =>
    /\ \A i \in 1..Len(steps) :
         /\ Len(steps[i].measured) = 1
         /\ Cardinality(CycleApiRows(i)) = IF steps[i].insert = "ok" THEN 1 ELSE 0
         /\ \A r \in CycleApiRows(i) :
              /\ r.status_code = steps[i].measured[1].status_code
              /\ r.success = steps[i].measured[1].success
              /\ r.error_message = steps[i].measured[1].error_message
              /\ r.response_time_ms = steps[i].measured[1].response_time_ms
    /\ success_count = Cardinality({i \in 1..Len(steps) :
                          CycleApiRows(i) # {} /\ CycleApiSummaryRows(i) # {}})
    /\ (pc = "exited" /\ raised = "none" /\ success_count > 0) => exit_code = 0

\* An API cycle that exited with 0 although one endpoint timed out and the
\* other answered 500; both results are in api_stats.
C13_Witness ==
  /\ proc = "api" /\ pc = "exited" /\ exit_code = 0 /\ Len(steps) = 2
  /\ \A i \in 1..2 : ~steps[i].measured[1].success /\ CycleApiRows(i) # {}
  /\ \E i \in 1..2 : steps[i].measured[1].status_code = 0
  /\ \E i \in 1..2 : steps[i].measured[1].status_code = 500

\* The raw and summary rows this cycle stored for the target of step i.
CycleRawRows(i) == IF proc = "disk" THEN CycleRows(i) ELSE CycleApiRows(i)
CycleSumRows(i) == IF proc = "disk" THEN CycleSummaryRows(i) ELSE CycleApiSummaryRows(i)

\* C14: when the raw insert of a target succeeds and its summary step
\* fails, the target is counted as failed and the raw row inserted in this
\* cycle stays in the store; the summary step is attempted, and summary
\* rows are written, only for a target whose raw insert of this cycle
\* succeeded.
C14_RawRowKept ==
  Collecting =>
    /\ \A i \in 1..Len(steps) :
         /\ (steps[i].insert = "ok" /\ steps[i].summary = "failed")
              => Cardinality(CycleRawRows(i)) = 1 /\ CycleSumRows(i) = {}
         /\ steps[i].summary # "skipped" => steps[i].insert = "ok"
         /\ CycleSumRows(i) # {} => CycleRawRows(i) # {}
    /\ error_count = Cardinality({i \in 1..Len(steps) : steps[i].summary # "ok"})
    /\ success_count = Cardinality({i \in 1..Len(steps) : steps[i].summary = "ok"})

\* A disk cycle that ended with exit code 1: the raw row of its first
\* target is stored, the summary step failed, no target succeeded.
C14_Witness ==
  /\ proc = "disk" /\ pc = "exited" /\ exit_code = 1 /\ Len(steps) = 2
  /\ steps[1].insert = "ok" /\ steps[1].summary = "failed"
  /\ CycleRows(1) # {} /\ success_count = 0 /\ error_count = 2

\* ------------------------------- the persistence step of a target alone
\* insert_stat_record and compute_and_store_summary applied to a store that
\* already holds rows of this and of another label, of this and of another
\* host, at timestamps on and around the edge of the summary window; the
\* entry carries the timestamp of the start of the cycle, the step runs
\* some time later.
PriorRow(id, label, host, minute, v) ==
  [rowid |-> id, timestamp |-> minute, hostname |-> host, label |-> label,
   write_mbps |-> <<v, 1>>, write_iops |-> <<v + 10, 1>>,
   write_lat_avg |-> <<v + 20, 1>>, read_mbps |-> <<v + 30, 1>>,
   read_iops |-> <<v + 40, 1>>, read_lat_avg |-> <<v + 50, 1>>,
   inserted_at |-> minute * SECONDS_PER_MINUTE]

PriorRows ==
  LET m == StrfMinute(StartTime)
  IN { PriorRow(1, <<"x">>, HOSTNAME, m, 1),
       PriorRow(2, <<"x">>, HOSTNAME, m - 60, 2),
       PriorRow(3, <<"x">>, HOSTNAME, m - 61, 3),
       PriorRow(4, <<"x">>, "other", m, 4),
       PriorRow(5, <<"y">>, HOSTNAME, m, 5),
       PriorRow(6, <<"x">>, HOSTNAME, m + 1, 2) }

\* Seconds from the start of the cycle to the persistence step.
StepDelays == {0, 3540, 3600, 3660}

PersistInputs ==
  { [table |-> tb, label |-> l, started |-> StartTime, at |-> StartTime + d,
     oi |-> oi, oq |-> oq, os |-> os] :
      tb \in SUBSET PriorRows, l \in {<<"x">>, <<"y">>}, d \in StepDelays,
      oi \in DbOutcomes, oq \in DbOutcomes, os \in DbOutcomes }

\* The same for the API collector: rows of this and of another API name,
\* of this and of another host.
PriorApiRow(id, name, host, minute, v) ==
  [rowid |-> id, timestamp |-> minute, hostname |-> host, api_name |-> name,
   endpoint_url |-> <<"u">>, response_time_ms |-> <<v, 1>>, status_code |-> 200,
   success |-> TRUE, error_message |-> NoMessage,
   inserted_at |-> minute * SECONDS_PER_MINUTE]

PriorApiRows ==
  LET m == StrfMinute(StartTime)
  IN { PriorApiRow(1, <<"n">>, HOSTNAME, m - 60, 1),
       PriorApiRow(2, <<"n">>, HOSTNAME, m - 61, 2),
       PriorApiRow(3, <<"n">>, "other", m, 3),
       PriorApiRow(4, <<"m">>, HOSTNAME, m, 4) }

PersistApiInputs ==
  { [table |-> tb, label |-> l, started |-> StartTime, at |-> StartTime + d,
     oi |-> oi, oq |-> oq, os |-> os] :
      tb \in SUBSET PriorApiRows, l \in {<<"n">>, <<"m">>}, d \in StepDelays,
      oi \in DbOutcomes, oq \in DbOutcomes, os \in DbOutcomes }

PersistInit ==
  /\ AtRest /\ schema = TRUE
  /\ \/ \E a \in PersistInputs :
          /\ a.oi # "ok" => a.oq = "ok"
          /\ a.os \in SummaryInsertOutcomes(a.oq)
          /\ call = [fn |-> "persist_target", arg |-> a, done |-> FALSE, result |-> <<>>]
     \/ \E a \in PersistApiInputs :
          /\ a.oi # "ok" => a.oq = "ok"
          /\ a.os \in ApiSummaryInsertOutcomes(a.oq)
          /\ call = [fn |-> "persist_api_target", arg |-> a, done |-> FALSE,
                     result |-> <<>>]

\* The step returns.
PersistCall ==
  /\ call.fn = "persist_target" /\ ~call.done
  /\ LET a == call.arg
         entry == StatEntry(StrfMinute(a.started + tz), a.label,
                            test_io_speed(ProbeRun(<<4>>)),
                            test_io_speed(ProbeRun(<<2, 2>>)))
     IN call' = [call EXCEPT !.done = TRUE,
                             !.result = persist_target(a.table, {}, entry, a.at,
                                                       a.oi, a.oq, a.os)]
  /\ UNCHANGED restVars

\* The step of the API collector returns.
PersistApiCall ==
  /\ call.fn = "persist_api_target" /\ ~call.done
  /\ LET a == call.arg
         entry == ApiEntry(StrfMinute(a.started + tz), <<"u">>, a.label,
                           test_api_endpoint(HttpResponse(200, 120)))
     IN call' = [call EXCEPT !.done = TRUE,
                             !.result = persist_api_target(a.table, {}, entry, a.at,
                                                           a.oi, a.oq, a.os)]
  /\ UNCHANGED restVars

PersistNext ==
  \/ PersistCall
  \/ PersistApiCall

PersistSpec == PersistInit /\ [][PersistNext]_vars
\* The persistence step of a target has returned.
Persisted == call.fn = "persist_target" /\ call.done
PersistedEither == call.fn \in {"persist_target", "persist_api_target"} /\ call.done

\* The raw rows of a label on this host that are at most an hour older, by
\* their timestamps, than the local minute of time t.
WithinHour(table, label, t) ==
  {r \in table : /\ (IF call.fn = "persist_target" THEN r.label ELSE r.api_name) = label
                 /\ r.hostname = HOSTNAME
                 /\ (StrfMinute(t + tz) - r.timestamp) * SECONDS_PER_MINUTE
                      <= SUMMARY_WINDOW_SECONDS}

\* The row the step inserted.
NewRows == call.result.raw \ call.arg.table

\* C15: when the trailing 1-hour window holds no raw row for the target on
\* this host, the summary step writes no summary row and reports success:
\* the target is counted as succeeded and a cycle with this target
\* succeeded is reported successful (exit code 0).
C15_EmptyWindowSucceeds ==
  (/\ PersistedEither /\ call.result.inserted /\ call.arg.oq = "ok"
   /\ WithinHour(call.result.raw, call.arg.label, call.arg.at) = {})
  => /\ call.result.added = {}
     /\ call.result.summary = "ok"
     /\ call.result.succeeded
     /\ main_exit(disk_collection_success(1, TRUE)) = 0
     /\ main_exit(api_collection_success(1, 1)) = 0

\* The step ran more than an hour after the cycle took its timestamp: the
\* row it inserted is outside the window, which is empty; nothing was
\* summarised and the target succeeded.
C15_Witness ==
  /\ Persisted /\ call.result.inserted /\ call.arg.oq = "ok"
  /\ NewRows # {}
  /\ WithinHour(call.result.raw, call.arg.label, call.arg.at) = {}
  /\ call.result.added = {} /\ call.result.succeeded

RECURSIVE SumOver(_, _)
SumOver(rows, metric) ==
  IF rows = {} THEN <<0, 1>>
  ELSE LET r == CHOOSE x \in rows : TRUE
       IN RatAdd(r[metric], SumOver(rows \ {r}, metric))

\* One summary row for each of the six metrics, each computed over rows.
SixRowsOver(added, rows, label) ==
  /\ Cardinality(added) = 6
  /\ \A i \in 1..6 :
       \E a \in added :
         /\ a.metric = metric_names[i] /\ a.label = label /\ a.hostname = HOSTNAME
         /\ \E r \in rows : a.stats.min = r[a.metric]
         /\ \E r \in rows : a.stats.max = r[a.metric]
         /\ \A r \in rows : /\ ~RatLess(r[a.metric], a.stats.min)
                            /\ ~RatLess(a.stats.max, r[a.metric])
         /\ a.stats.avg = Rat(SumOver(rows, a.metric)[1],
                              SumOver(rows, a.metric)[2] * Cardinality(rows))

\* C16 as stated: for a disk target whose probe and raw insert succeeded the
\* summary step appends exactly one row for each of the six metrics,
\* computed over exactly the disk_stats rows of that label and this host
\* with timestamp >= now - 1 hour, which include the row just inserted; the
\* six rows are written all or none.
C16_SixRowsWithNewRow ==
  (Persisted /\ call.result.inserted) =>
    LET window == WithinHour(call.result.raw, call.arg.label, call.arg.at)
    IN /\ NewRows \subseteq window
       /\ call.result.summary = "ok"
            => SixRowsOver(call.result.added, window, call.arg.label)
       /\ call.result.summary # "ok" => call.result.added = {}

\* C16, amended: the summary step appends exactly one row for each of the
\* six metrics, computed over exactly the disk_stats rows of that label and
\* this host with timestamp >= now - 1 hour, all six or none; the window
\* holds the row just inserted exactly when the step runs at most an hour
\* (by the minute) after the cycle took its timestamp, and when the window
\* holds no row nothing is appended.
C16_SixRowsOverWindow ==
  (Persisted /\ call.result.inserted) =>
    LET window == WithinHour(call.result.raw, call.arg.label, call.arg.at)
    IN /\ NewRows \subseteq window
            <=> StrfMinute(call.arg.at + tz) - StrfMinute(call.arg.started + tz) <= 60
       /\ (call.result.summary = "ok" /\ window # {})
            => SixRowsOver(call.result.added, window, call.arg.label)
       /\ (call.result.summary # "ok" \/ window = {}) => call.result.added = {}

\* Six rows were appended over a window that holds the row just inserted
\* and the prior row exactly an hour old, and leaves out the older row and
\* the row of the other host.
C16_Witness ==
  /\ Persisted /\ call.result.inserted /\ call.result.summary = "ok"
  /\ call.arg.at = call.arg.started
  /\ Cardinality(call.result.added) = 6
  /\ Cardinality(call.arg.table) >= 4
  /\ Cardinality(WithinHour(call.result.raw, call.arg.label, call.arg.at)) = 3
  /\ \E r \in call.arg.table : r.hostname # HOSTNAME /\ r.label = call.arg.label

\* ------------------------------------- the store writes of a cycle, and
\* a crash.  The writes of a cycle with one target, statement by statement:
\* insert_stat_record, insert_summary_stats and decimate_old_data each open
\* their own connection, run their statements inside "with conn:", which
\* commits when the block ends (and rolls back on an sqlite3.Error), close
\* and return.  The tables are what is committed; the process may be killed
\* at any point, which discards the open transaction.
WriteOps == <<"insert_stat_record", "insert_summary_stats", "decimate_old_data">>
Statements(op) == IF op = 1 THEN 1 ELSE IF op = 2 THEN Len(metric_names) ELSE 2

\* Variant: one transaction spans the cycle and commits with its last write.
CommitsAtEndOfCycle(op) == op = Len(WriteOps)

\* "with conn:" commits at the end of the block of each write.
Commits(op) == TRUE

StoredBefore ==
  LET m == StrfMinute(StartTime)
  IN { PriorRow(5, <<"x">>, HOSTNAME, m - 1500, 1),
       PriorRow(6, <<"x">>, HOSTNAME, m - 1500, 2),
       PriorRow(7, <<"y">>, HOSTNAME, m - 5000, 3) }

NoPending == [raw |-> {}, sum |-> {}, del |-> {}]

WritesInit ==
  /\ Quiet /\ schema = TRUE
  /\ disk_stats_summary = {} /\ api_stats = {} /\ api_stats_summary = {}
  /\ \E tb \in SUBSET StoredBefore :
       /\ disk_stats = tb
       /\ call = [fn |-> "writes", arg |-> tb, done |-> FALSE,
                  result |-> NoPending, op |-> 1, stage |-> "closed", stmts |-> 0,
                  pending |-> NoPending, acked |-> NoPending,
                  crashed |-> FALSE]

Writing == call.fn = "writes" /\ ~call.crashed /\ call.op <= Len(WriteOps)

\* The write that follows write op: a failed insert skips the summary.
NextWrite(op, ok) == IF op = 1 /\ ~ok THEN 3 ELSE op + 1

\* connect_db: the write opens its connection, or returns False.
WriteBegin ==
  /\ Writing /\ call.stage = "closed"
  /\ \E o \in {"ok", "noconn"} :
       call' = IF o = "ok"
               THEN [call EXCEPT !.stage = "open", !.stmts = 0]
               ELSE [call EXCEPT !.op = NextWrite(call.op, FALSE)]
  /\ UNCHANGED restVars

\* What statement k of write op adds to the open transaction.
entry_of_cycle ==
  StatEntry(current_timestamp, <<"x">>, test_io_speed(ProbeRun(<<4>>)),
            test_io_speed(ProbeRun(<<2, 2>>)))

StatementEffect(op, k, pending) ==
  IF op = 1
  THEN [pending EXCEPT !.raw = @ \cup {StatRow(disk_stats, entry_of_cycle, now)}]
  ELSE IF op = 2
  THEN [pending EXCEPT !.sum = @ \cup
          {r \in SummaryRows(disk_stats_summary, <<"x">>,
                             SummaryWindow(disk_stats \cup pending.raw, <<"x">>, now), now) :
             r.metric = metric_names[k]}]
  ELSE IF k = 1
  THEN [pending EXCEPT !.del = @ \cup ((disk_stats \cup pending.raw)
                                       \ DeleteOldTier(disk_stats \cup pending.raw, now))]
  ELSE [pending EXCEPT !.del = @ \cup (((disk_stats \cup pending.raw) \ pending.del)
                                       \ DeleteMidTier((disk_stats \cup pending.raw)
                                                       \ pending.del, now))]

\* One statement of the open transaction runs, or raises an sqlite3.Error,
\* which rolls the transaction of this write back and makes it return False.
WriteStatement ==
  /\ Writing /\ call.stage = "open" /\ call.stmts < Statements(call.op)
  /\ \E o \in {"ok", "sqlerr"} :
       call' = IF o = "ok"
               THEN [call EXCEPT !.stmts = @ + 1,
                                 !.pending = StatementEffect(call.op, call.stmts + 1, @)]
               ELSE [call EXCEPT !.stage = "closed", !.stmts = 0,
                                 !.pending = NoPending,
                                 !.op = NextWrite(call.op, FALSE)]
  /\ UNCHANGED restVars

\* The block ends: the transaction commits.
WriteCommit ==
  /\ Writing /\ call.stage = "open" /\ call.stmts = Statements(call.op)
  /\ IF Commits(call.op)
     THEN /\ disk_stats' = (disk_stats \cup call.pending.raw) \ call.pending.del
          /\ disk_stats_summary' = disk_stats_summary \cup call.pending.sum
          /\ call' = [call EXCEPT !.stage = "committed", !.pending = NoPending,
                                  !.result = call.pending]
     ELSE /\ UNCHANGED <<disk_stats, disk_stats_summary>>
          /\ call' = [call EXCEPT !.stage = "committed", !.result = call.pending]
  /\ UNCHANGED <<env, tz, now, schema, api_stats, api_stats_summary, proc, pc, config,
                 idx, timestamp, success_count, error_count, exit_code, due, entered,
                 steps, decimate_calls, raised, assigned, pass_base, before, passed_at>>

\* The write returns True to run_once_and_record.
WriteReturn ==
  /\ Writing /\ call.stage = "committed"
  /\ call' = [call EXCEPT !.stage = "closed", !.stmts = 0,
                          !.acked = [raw |-> @.raw \cup call.result.raw,
                                     sum |-> @.sum \cup call.result.sum,
                                     del |-> @.del \cup call.result.del],
                          !.op = NextWrite(call.op, TRUE)]
  /\ UNCHANGED restVars

\* The process is killed: the open transaction is never committed.
Crash ==
  /\ Writing
  /\ call' = [call EXCEPT !.crashed = TRUE, !.pending = NoPending]
  /\ UNCHANGED restVars

WritesNext ==
  \/ WriteBegin
  \/ WriteStatement
  \/ WriteCommit
  \/ WriteReturn
  \/ Crash

WritesSpec == WritesInit /\ [][WritesNext]_vars

\* C17: each store write (raw insert, summary insert, retention pass) is its
\* own committed transaction.  At every point of the cycle, and after a crash
\* at any point, every raw and summary row whose write has returned True is in
\* the store and every row a returned retention pass deleted is gone; the
\* store holds whole writes only: at most the one new raw row, none or all
\* six summary rows, and the rows stored before either all or thinned by a
\* whole retention pass.
C17_ReturnedWritesSurvive ==
  call.fn = "writes" =>
    /\ call.acked.raw \subseteq disk_stats
    /\ call.acked.sum \subseteq disk_stats_summary
    /\ call.acked.del \cap disk_stats = {}
    /\ Cardinality(disk_stats \ call.arg) <= 1
    /\ Cardinality(disk_stats_summary) \in {0, Len(metric_names)}
    /\ (disk_stats \cap call.arg) \in {call.arg, DecimateTable(call.arg, now)}

\* A crash in the middle of the summary insert, after the raw insert returned:
\* the raw row is stored, the three summary rows already executed are lost.
C17_Witness ==
  /\ call.fn = "writes" /\ call.crashed
  /\ call.op = 2 /\ call.stage = "open" /\ call.stmts = 3
  /\ call.acked.raw # {} /\ call.acked.raw \subseteq disk_stats
  /\ disk_stats_summary = {}

\* ------------------------------------------ two overlapping invocations
\* of the disk collector over the same target.  Both probe through the one
\* file <path>/test_speed.tmp: test_io_speed opens it 'wb' (created or
\* truncated) for the write probe and 'rb' for the read probe, where a
\* missing file raises and the probe returns {"error": ...}; after both
\* probes run_once_and_record removes the file, ignoring any failure.  An
\* open file stays readable after its name is removed.  Every store
\* operation succeeds, as it does in a run on its own.
Invocations == {1, 2}

NotStarted == [pc |-> "start", read |-> "none", outcome |-> "none", row |-> {}]

OverlapInit ==
  /\ AtRest /\ schema = TRUE
  /\ \E f \in {"absent", "present"} :
       call = [fn |-> "overlap", arg |-> f, done |-> FALSE, result |-> <<>>,
               file |-> f, inv |-> [i \in Invocations |-> NotStarted]]

At(i, where) == call.fn = "overlap" /\ call.inv[i].pc = where

\* open(file_path, 'wb'): the write probe creates or truncates the file.
WriteProbeOpen(i) ==
  /\ At(i, "start")
  /\ call' = [call EXCEPT !.file = "present", !.inv[i].pc = "writing"]
  /\ UNCHANGED restVars

\* The write probe returns its measurement after DURATION seconds.
WriteProbeReturn(i) ==
  /\ At(i, "writing")
  /\ call' = [call EXCEPT !.inv[i].pc = "written"]
  /\ UNCHANGED restVars

\* open(file_path, 'rb'): FileNotFoundError when the file is gone.
ReadProbeOpen(i) ==
  /\ At(i, "written")
  /\ call' = IF call.file = "present"
             THEN [call EXCEPT !.inv[i].pc = "reading"]
             ELSE [call EXCEPT !.inv[i].pc = "read", !.inv[i].read = "error"]
  /\ UNCHANGED restVars

\* The read probe returns its measurement.
ReadProbeReturn(i) ==
  /\ At(i, "reading")
  /\ call' = [call EXCEPT !.inv[i].pc = "read", !.inv[i].read = "ok"]
  /\ UNCHANGED restVars

\* os.remove(test_speed.tmp) inside try / except: pass.
RemoveProbeFile(i) ==
  /\ At(i, "read")
  /\ call' = [call EXCEPT !.file = "absent", !.inv[i].pc = "probed"]
  /\ UNCHANGED restVars

\* 'error' in write or 'error' in read: the target is counted as failed;
\* otherwise the entry is inserted and summarised.
OverlapPersist(i) ==
  /\ At(i, "probed")
  /\ IF call.inv[i].read = "error"
     THEN /\ call' = [call EXCEPT !.inv[i].pc = "persisted",
                                  !.inv[i].outcome = "failed"]
          /\ UNCHANGED <<disk_stats, disk_stats_summary>>
     ELSE LET p == persist_target(disk_stats, disk_stats_summary, entry_of_cycle,
                                  now, "ok", "ok", "ok")
          IN /\ disk_stats' = p.raw
             /\ disk_stats_summary' = disk_stats_summary \cup p.added
             /\ call' = [call EXCEPT !.inv[i].pc = "persisted",
                                     !.inv[i].outcome = "succeeded",
                                     !.inv[i].row = p.raw \ disk_stats]
  /\ UNCHANGED <<env, tz, now, schema, api_stats, api_stats_summary, proc, pc, config,
                 idx, timestamp, success_count, error_count, exit_code, due, entered,
                 steps, decimate_calls, raised, assigned, pass_base, before, passed_at>>

\* decimate_old_data at the end of the invocation.
OverlapDecimate(i) ==
  /\ At(i, "persisted")
  /\ disk_stats' = DecimateTable(disk_stats, now)
  /\ call' = [call EXCEPT !.inv[i].pc = "done"]
  /\ UNCHANGED <<env, tz, now, schema, disk_stats_summary, api_stats,
                 api_stats_summary, proc, pc, config,
                 idx, timestamp, success_count, error_count, exit_code, due, entered,
                 steps, decimate_calls, raised, assigned, pass_base, before, passed_at>>

OverlapNext ==
  \E i \in Invocations :
    \/ WriteProbeOpen(i)
    \/ WriteProbeReturn(i)
    \/ ReadProbeOpen(i)
    \/ ReadProbeReturn(i)
    \/ RemoveProbeFile(i)
    \/ OverlapPersist(i)
    \/ OverlapDecimate(i)

OverlapSpec == OverlapInit /\ [][OverlapNext]_vars

NoStoreInit == InitOn({[env |-> NoStore, tz |-> 0]})

NoStoreSpec == NoStoreInit /\ [][Next]_vars

\* C19: when the store cannot be opened, a cycle of the disk collector with
\* configured targets completes without raising: every target was visited,
\* no persistence step succeeded, the summary step was never attempted, the
\* retention pass failed, no row was written, and the exit code is 1 set by
\* the normal return of main.
C19_NoStoreExitsOne ==
  /\ disk_stats = {} /\ disk_stats_summary = {}
  /\ (proc = "disk" /\ pc = "exited" /\ config # <<>>) =>
       /\ raised = "none" /\ entered
       /\ exit_code = 1
       /\ Len(steps) = Len(config)
       /\ \A i \in 1..Len(steps) :
            /\ steps[i].insert \in {"failed", "skipped"}
            /\ steps[i].probes = "ok" => steps[i].insert = "failed"
            /\ steps[i].summary = "skipped"
            /\ steps[i].raw_rows = {} /\ steps[i].summary_rows = 0
       /\ success_count = 0
       /\ Len(decimate_calls) = 1 /\ ~decimate_calls[1].success

\* A cycle without a store in which both targets were probed successfully.
C19_Witness ==
  /\ ~(StoreOutcomes(env) = DbOutcomes)
  /\ proc = "disk" /\ pc = "exited" /\ exit_code = 1 /\ raised = "none"
  /\ Len(steps) = 2
  /\ \A i \in 1..Len(steps) : steps[i].probes = "ok" /\ steps[i].insert = "failed"
  /\ error_count = 2

\* ----------------------------------------------------------- connect_db
\* connect_db(fail_gracefully) over what the file system and sqlite3 do.
\* fs: whether the parent directory of DB_FILE and the file .db_write_test
\* in it exist.  Each step either succeeds or raises an exception of the
\* named class; unlink(missing_ok=True) also succeeds on a file that
\* somebody else has removed in between ("missing").
MkdirOutcomes == {"ok", "OSError"}
TouchOutcomes == {"ok", "OSError"}
UnlinkOutcomes == {"ok", "missing", "OSError"}
OpenOutcomes == {"ok", "sqlite3.Error", "OSError"}

FsBefore ==
  { [dir |-> FALSE, sentinel |-> FALSE],
    [dir |-> TRUE, sentinel |-> FALSE],
    [dir |-> TRUE, sentinel |-> TRUE] }

\* db_path.parent.mkdir(parents=True, exist_ok=True)
Mkdir(fs, om) ==
  IF om = "ok" THEN [ok |-> TRUE, fs |-> [fs EXCEPT !.dir = TRUE]]
  ELSE [ok |-> FALSE, fs |-> fs]

\* Variant: a sentinel that cannot be removed is left behind and ignored.
WriteTestTouchOnly(fs, ot, ou) ==
  IF ot # "ok" THEN [ok |-> FALSE, fs |-> fs, touched |-> FALSE, removed |-> FALSE]
  ELSE [ok |-> TRUE, fs |-> [fs EXCEPT !.sentinel = (ou = "OSError")],
        touched |-> TRUE, removed |-> ou # "OSError"]

\* test_file.touch(); test_file.unlink(missing_ok=True)
WriteTest(fs, ot, ou) ==
  IF ot # "ok" THEN [ok |-> FALSE, fs |-> fs, touched |-> FALSE, removed |-> FALSE]
  ELSE IF ou = "OSError"
  THEN [ok |-> FALSE, fs |-> [fs EXCEPT !.sentinel = TRUE], touched |-> TRUE,
        removed |-> FALSE]
  ELSE [ok |-> TRUE, fs |-> [fs EXCEPT !.sentinel = FALSE], touched |-> TRUE,
        removed |-> TRUE]

\* What a failed step makes of the call: None in graceful mode, the
\* exception otherwise.
Failed(fail_gracefully, class) ==
  IF fail_gracefully THEN [value |-> "None", exception |-> "none"]
  ELSE [value |-> "raised", exception |-> class]

connect_db(fail_gracefully, fs, om, ot, ou, oc) ==
  LET made == Mkdir(fs, om)
      tested == WriteTest(made.fs, ot, ou)
  IN IF ~made.ok
     THEN Failed(fail_gracefully, om) @@
          [fs |-> made.fs, trace |-> <<"mkdir">>, touched |-> FALSE, removed |-> FALSE]
     ELSE IF ~tested.ok
     THEN Failed(fail_gracefully, "OSError") @@
          [fs |-> tested.fs,
           trace |-> IF tested.touched THEN <<"mkdir", "touch", "unlink">>
                     ELSE <<"mkdir", "touch">>,
           touched |-> tested.touched, removed |-> tested.removed]
     ELSE (IF oc = "ok" THEN [value |-> "connection", exception |-> "none"]
           ELSE Failed(fail_gracefully, oc)) @@
          [fs |-> tested.fs, trace |-> <<"mkdir", "touch", "unlink", "connect">>,
           touched |-> TRUE, removed |-> TRUE]

ConnectInputs ==
  { [fail_gracefully |-> g, fs |-> f, om |-> om, ot |-> ot, ou |-> ou, oc |-> oc] :
      g \in BOOLEAN, f \in FsBefore, om \in MkdirOutcomes, ot \in TouchOutcomes,
      ou \in UnlinkOutcomes, oc \in OpenOutcomes }

ConnectInit ==
  /\ AtRest /\ schema = FALSE
  /\ \E a \in ConnectInputs :
       call = [fn |-> "connect_db", arg |-> a, done |-> FALSE, result |-> <<>>]

\* connect_db returns or raises.
ConnectCall ==
  /\ call.fn = "connect_db" /\ ~call.done
  /\ LET a == call.arg
     IN call' = [call EXCEPT !.done = TRUE,
                             !.result = connect_db(a.fail_gracefully, a.fs, a.om,
                                                   a.ot, a.ou, a.oc)]
  /\ UNCHANGED restVars

ConnectNext == ConnectCall

ConnectSpec == ConnectInit /\ [][ConnectNext]_vars

\* A call of connect_db in graceful mode has returned.
Connected == call.fn = "connect_db" /\ call.done /\ call.arg.fail_gracefully

\* Some step of the call fails.
StepFails(a) ==
  a.om # "ok" \/ a.ot # "ok" \/ a.ou = "OSError" \/ a.oc # "ok"

\* C20: connect_db in graceful mode never raises for file system or SQLite
\* errors; it returns a connection only after the parent directory exists,
\* the sentinel file was created in it and removed again and the store was
\* opened; it returns None when any of these steps fails.
C20_GracefulConnect ==
  Connected =>
    /\ call.result.value \in {"connection", "None"}
    /\ call.result.exception = "none"
    /\ call.result.value = "connection" =>
         /\ call.result.fs.dir
         /\ call.result.touched /\ call.result.removed
         /\ ~call.result.fs.sentinel
         /\ call.result.trace = <<"mkdir", "touch", "unlink", "connect">>
    /\ StepFails(call.arg) <=> call.result.value = "None"

\* A connection returned where the directory was absent: it was made, and
\* the sentinel was created and removed.
C20_Witness ==
  /\ Connected
  /\ call.result.value = "connection" /\ ~call.arg.fs.dir
  /\ call.result.fs.dir /\ call.result.touched /\ ~call.result.fs.sentinel

\* --------------------------------------------------------- create_tables
\* The store as the tables it holds: a function from the names of the
\* existing tables to their rows.  create_tables runs four CREATE TABLE IF
\* NOT EXISTS statements in one transaction.
MaxCreateCalls == 3

TableNames == <<"disk_stats", "disk_stats_summary", "api_stats", "api_stats_summary">>

\* Variant: DROP TABLE IF EXISTS, then CREATE TABLE.
DropAndCreateTable(store, name) ==
  [n \in DOMAIN store \cup {name} |-> IF n = name THEN {} ELSE store[n]]

\* CREATE TABLE IF NOT EXISTS name: an existing table is left as it is.
CreateTableIfNotExists(store, name) ==
  [n \in DOMAIN store \cup {name} |-> IF n \in DOMAIN store THEN store[n] ELSE {}]

RECURSIVE CreateFrom(_, _)
CreateFrom(store, i) ==
  IF i > Len(TableNames) THEN store
  ELSE CreateFrom(CreateTableIfNotExists(store, TableNames[i]), i + 1)

create_tables(store) == CreateFrom(store, 1)

\* The stores considered: any of the four tables exists or not, empty or
\* holding a row.
StoresBefore ==
  UNION { [D -> {{}, {RetRow(5, 0)}}] : D \in SUBSET {TableNames[i] : i \in 1..Len(TableNames)} }

SchemaInit ==
  /\ AtRest /\ schema = FALSE
  /\ \E st \in StoresBefore :
       call = [fn |-> "create_tables", arg |-> st, done |-> FALSE, result |-> st,
               calls |-> 0]

\* create_tables(conn) returns.
CreateTablesCall ==
  /\ call.fn = "create_tables" /\ call.calls < MaxCreateCalls
  /\ call' = [call EXCEPT !.done = TRUE, !.result = create_tables(@),
                          !.calls = @ + 1]
  /\ UNCHANGED restVars

SchemaNext == CreateTablesCall

SchemaSpec == SchemaInit /\ [][SchemaNext]_vars

\* C21: create_tables is idempotent: after any number of calls the store
\* holds exactly the four tables disk_stats, disk_stats_summary, api_stats
\* and api_stats_summary, and every table that existed before the first
\* call holds the rows it held then.
C21_CreateTablesIdempotent ==
  (call.fn = "create_tables" /\ call.done) =>
    /\ DOMAIN call.result = {TableNames[i] : i \in 1..Len(TableNames)}
    /\ \A n \in DOMAIN call.arg : call.result[n] = call.arg[n]
    /\ \A n \in DOMAIN call.result \ DOMAIN call.arg : call.result[n] = {}
    /\ create_tables(call.result) = call.result

\* A second call on a store that held rows in disk_stats before the first.
C21_Witness ==
  /\ call.fn = "create_tables" /\ call.calls = 2
  /\ "disk_stats" \in DOMAIN call.arg /\ call.arg["disk_stats"] # {}
  /\ "api_stats" \notin DOMAIN call.arg
  /\ call.result["disk_stats"] = call.arg["disk_stats"]

\* -------------------------------------------------- the target maps
\* The module-level parsing of both collectors over configured lists: the
\* fields of each variable are joined with commas as the user writes them.
MaxFields == 3

RECURSIVE Join(_)
Join(fields) ==
  IF fields = <<>> THEN <<>>
  ELSE IF Len(fields) = 1 THEN Head(fields)
  ELSE Head(fields) \o <<",">> \o Join(Tail(fields))

FieldLists(alphabet) == UNION { [1..n -> alphabet] : n \in 1..MaxFields }

ConfigInputs ==
  { [collector |-> c, keys |-> ks, vals |-> vs] :
      c \in Collectors,
      ks \in FieldLists({<<"a">>, <<"b">>, <<>>}),
      vs \in FieldLists({<<"x">>, <<"y">>}) }

\* The environment in which the lists are configured for the collector.
ConfiguredEnv(a) ==
  IF a.collector = "disk"
  THEN [FILESYSTEM_PATHS |-> EnvStr(Join(a.keys)), FILESYSTEM_LABELS |-> EnvStr(Join(a.vals)),
        API_ENDPOINTS |-> Unset, API_NAMES |-> Unset]
  ELSE [FILESYSTEM_PATHS |-> Unset, FILESYSTEM_LABELS |-> Unset,
        API_ENDPOINTS |-> EnvStr(Join(a.keys)), API_NAMES |-> EnvStr(Join(a.vals))]

\* What importing the collector's module gives: ValueError, or the map.
ParseConfig(a) ==
  LET e == ConfiguredEnv(a)
  IN IF a.collector = "disk"
     THEN [error |-> FsConfigError(e),
           config |-> IF FsConfigError(e) THEN <<>> ELSE FILESYSTEM_CONFIG(e),
           keys |-> fs_paths(e), vals |-> fs_labels(e)]
     ELSE [error |-> ApiConfigError(e),
           config |-> IF ApiConfigError(e) THEN <<>> ELSE API_CONFIG(e),
           keys |-> api_endpoints(e), vals |-> api_names_raw(e)]

ConfigInit ==
  /\ AtRest /\ schema = FALSE
  /\ \E a \in ConfigInputs :
       call = [fn |-> "config", arg |-> a, done |-> FALSE, result |-> <<>>]

\* The module is imported.
ConfigCall ==
  /\ call.fn = "config" /\ ~call.done
  /\ call' = [call EXCEPT !.done = TRUE, !.result = ParseConfig(call.arg)]
  /\ UNCHANGED restVars

ConfigNext == ConfigCall

ConfigSpec == ConfigInit /\ [][ConfigNext]_vars

\* C22: for configured lists of equal length n the target map has exactly n
\* entries and pairs the i-th path or URL with the i-th label or name; lists
\* of different non-zero lengths raise a configuration error.
C22_MapPairsLists ==
  (call.fn = "config" /\ call.done) =>
    LET r == call.result
    IN /\ Len(r.keys) = Len(r.vals) =>
            /\ ~r.error
            /\ Len(r.config) = Len(r.keys)
            /\ \A i \in 1..Len(r.keys) :
                 \E j \in 1..Len(r.config) :
                   r.config[j] = [key |-> r.keys[i], val |-> r.vals[i]]
       /\ (Len(r.keys) # Len(r.vals) /\ Len(r.keys) > 0 /\ Len(r.vals) > 0) => r.error

\* No row of the table is changed by the step: a row that keeps its rowid
\* keeps every column.
NoUpdate(table, tableAfter) ==
  \A q \in table : \A r \in tableAfter : r.rowid = q.rowid => r = q

\* The step is the retention pass at the end of a disk cycle.
RetentionStep ==
  /\ proc = "disk" /\ pc = "loop" /\ pc' = "exited"
  /\ Len(decimate_calls') = Len(decimate_calls) + 1
  /\ disk_stats' = DecimateTable(disk_stats, now)

\* C23: stored rows are immutable: no step of a collector changes a row of
\* any table; rows of disk_stats_summary, api_stats_summary (and api_stats)
\* are never deleted; rows of disk_stats are deleted only by the retention
\* pass.
C23_RowsImmutable ==
  [][/\ NoUpdate(disk_stats, disk_stats')
     /\ NoUpdate(disk_stats_summary, disk_stats_summary')
     /\ NoUpdate(api_stats, api_stats')
     /\ NoUpdate(api_stats_summary, api_stats_summary')
     /\ disk_stats_summary \subseteq disk_stats_summary'
     /\ api_stats_summary \subseteq api_stats_summary'
     /\ api_stats \subseteq api_stats'
     /\ (disk_stats \ disk_stats' # {}) => RetentionStep]_vars

\* A disk cycle has ended whose retention passes have deleted a raw row
\* while the summary rows of both cycles are still stored.
C23_Witness ==
  /\ proc = "disk" /\ pc = "exited" /\ entered
  /\ assigned \ Rowids(disk_stats) # {}
  /\ Cardinality(disk_stats_summary) >= 2 * Len(metric_names)

\* ------------------------------------------------- the summary report
\* db_summary --recompute: the window is resolved, compute_summary_stats
\* inserts one summary row per label and metric, stamped with the time of
\* the run, and get_latest_summary_per_filesystem selects the rows to print.
\* TIME_PERIODS: "1h" is 0.0417 days, 3602.88 seconds, which the minute
\* format cuts like 3603 whole seconds; "1d" is 1 day.
HOUR_PRESET_SECONDS == 3603
DAY_PRESET_SECONDS == 86400
NoTime == 0 - 1

FS_LABELS == <<<<"x">>, <<"y">>>>

\* The selectors of the command line: -t 1h, -t 1d, -t all, and
\* --start-date with or without --end-date.
Selectors ==
  LET m == StrfMinute(StartTime)
  IN { [kind |-> "preset", back |-> HOUR_PRESET_SECONDS, start |-> NoTime, end |-> NoTime],
       [kind |-> "preset", back |-> DAY_PRESET_SECONDS, start |-> NoTime, end |-> NoTime],
       [kind |-> "all", back |-> 0, start |-> NoTime, end |-> NoTime],
       [kind |-> "dates", back |-> 0, start |-> m - 2880, end |-> m - 1440],
       [kind |-> "dates", back |-> 0, start |-> m - 2880, end |-> NoTime] }

\* get_time_range_from_args at time t: (start_str, end_str), None as NoTime.
get_time_range_from_args(sel, t) ==
  IF sel.kind = "dates"
  THEN [start |-> sel.start,
        end |-> IF sel.end = NoTime THEN StrfMinute(t + tz) ELSE sel.end]
  ELSE IF sel.kind = "all" THEN [start |-> NoTime, end |-> NoTime]
  ELSE [start |-> StrfMinute(t + tz - sel.back), end |-> StrfMinute(t + tz)]

\* get_time_filter_params: "timestamp >= ?" and "timestamp <= ?".
InRange(ts, range) ==
  /\ range.start # NoTime => ts >= range.start
  /\ range.end # NoTime => ts <= range.end

InLabels(label) == \E i \in 1..Len(FS_LABELS) : FS_LABELS[i] = label

\* compute_summary_stats: for each label with raw rows in the range, in
\* label order, six rows appended to the summary table.
RECURSIVE ComputeFrom(_, _, _, _, _)
ComputeFrom(i, raw, summaryTable, range, t) ==
  IF i > Len(FS_LABELS) THEN summaryTable
  ELSE LET rows == {r \in raw : r.label = FS_LABELS[i] /\ InRange(r.timestamp, range)}
       IN ComputeFrom(i + 1, raw,
                      IF rows = {} THEN summaryTable
                      ELSE summaryTable \cup SummaryRows(summaryTable, FS_LABELS[i], rows, t),
                      range, t)

compute_summary_stats(raw, summaryTable, range, t) ==
  LET labels == {r.label : r \in {q \in raw : InRange(q.timestamp, range) /\ InLabels(q.label)}}
      after == ComputeFrom(1, raw, summaryTable, range, t)
  IN IF labels = {} THEN [ok |-> FALSE, table |-> summaryTable, added |-> {}]
     ELSE [ok |-> TRUE, table |-> after, added |-> after \ summaryTable]

\* ROW_NUMBER() OVER (PARTITION BY label, metric ORDER BY rowid DESC) = 1
NewestOfEach(rows) ==
  {r \in rows : \A q \in rows :
     (q.label = r.label /\ q.metric = r.metric) => q.rowid <= r.rowid}

\* get_latest_summary_per_filesystem: with a range, the rows of the latest
\* timestamp in the range per label and metric; without, the rows of the
\* latest timestamp per label.
get_latest_summary_per_filesystem(summaryTable, range) ==
  LET known == {r \in summaryTable : InLabels(r.label)}
  IN IF range.start # NoTime \/ range.end # NoTime
     THEN LET inside == {r \in known : InRange(r.timestamp, range)}
              latest(r) == \A q \in inside :
                             (q.label = r.label /\ q.metric = r.metric)
                             => q.timestamp <= r.timestamp
          IN NewestOfEach({r \in summaryTable :
                             \E f \in inside : /\ latest(f) /\ f.label = r.label
                                               /\ f.metric = r.metric
                                               /\ f.timestamp = r.timestamp})
     ELSE LET latest(r) == \A q \in known : q.label = r.label => q.timestamp <= r.timestamp
          IN NewestOfEach({r \in summaryTable :
                             \E f \in known : /\ latest(f) /\ f.label = r.label
                                              /\ f.timestamp = r.timestamp})

\* The raw rows considered: both labels in the last hour, one label a day
\* and more back; the summaries stored by the cycles that wrote them.
ReportRawRows ==
  LET m == StrfMinute(StartTime)
  IN { PriorRow(1, <<"x">>, HOSTNAME, m - 2000, 1),
       PriorRow(2, <<"x">>, HOSTNAME, m - 1500, 2),
       PriorRow(3, <<"x">>, HOSTNAME, m - 30, 3),
       PriorRow(4, <<"y">>, HOSTNAME, m - 30, 4) }

StoredSummaries(raw) ==
  LET m == StrfMinute(StartTime)
      old == {r \in raw : r.rowid = 2}
  IN IF old = {} THEN {}
     ELSE SummaryRows({}, <<"x">>, old, (m - 1500) * SECONDS_PER_MINUTE)

ReportInputs ==
  { [selector |-> sel, raw |-> raw, summaries |-> sums] :
      sel \in Selectors, raw \in SUBSET ReportRawRows,
      sums \in {{}} \cup {StoredSummaries(ReportRawRows)} }

ReportInit ==
  /\ AtRest /\ schema = TRUE
  /\ \E a \in ReportInputs :
       /\ a.summaries # {} => StoredSummaries(a.raw) # {}
       /\ call = [fn |-> "db_summary", arg |-> a, done |-> FALSE, result |-> <<>>]

\* main with --recompute: recompute, then read what is printed.
ReportCall ==
  /\ call.fn = "db_summary" /\ ~call.done
  /\ LET a == call.arg
         range == get_time_range_from_args(a.selector, now)
         computed == compute_summary_stats(a.raw, a.summaries, range, now)
     IN call' = [call EXCEPT
                   !.done = TRUE,
                   !.result = [recomputed |-> computed.ok, added |-> computed.added,
                               printed |-> IF computed.ok
                                           THEN get_latest_summary_per_filesystem(
                                                  computed.table, range)
                                           ELSE {}]]
  /\ UNCHANGED restVars

ReportNext == ReportCall

ReportSpec == ReportInit /\ [][ReportNext]_vars

\* C24: in recompute-then-read mode the rows printed are the rows just
\* recomputed from the raw rows of the selected window, for every selector:
\* a preset, 'all', or explicit dates lying in the past.
C24_PrintsRecomputed ==
  (call.fn = "db_summary" /\ call.done /\ call.result.recomputed) =>
    call.result.printed = call.result.added

\* ------------------------------------------------------ the store path
\* DB_FILE as each entry point resolves it from RESOURCE_STATS_DB and
\* DISK_STATS_DB, run from a shell or from the line manage_cron installs.
DEFAULT_RESOURCE_DB == <<"~/hpc-resource-monitor/data/resource_stats.db">>
DEFAULT_DISK_DB == <<"~/hpc-disk-monitor/data/disk_stats.db">>

EntryPoints ==
  {"resource_metrics_collector", "api_status_collector", "init_db",
   "db_summary", "export_to_csv", "delete_db"}

\* Each variable is unset, set to the empty string, or set to a path.
PathEnvs ==
  { [RESOURCE_STATS_DB |-> r, DISK_STATS_DB |-> d] :
      r \in {Unset, EnvStr(<<>>), EnvStr(<<"/r.db">>)},
      d \in {Unset, EnvStr(<<>>), EnvStr(<<"/d.db">>)} }

\* ENV_EXPORTS: os.environ.get(name, ""), written as NAME=value in front of
\* the command of the cron line: the job sees every variable set.
ENV_EXPORTS(e) ==
  [RESOURCE_STATS_DB |-> EnvStr(getenv(e.RESOURCE_STATS_DB, <<>>)),
   DISK_STATS_DB |-> EnvStr(getenv(e.DISK_STATS_DB, <<>>))]

\* The environment the entry point runs in.
JobEnv(e, via) == IF via = "cron" THEN ENV_EXPORTS(e) ELSE e

\* db/schema.py and export_to_csv.py
DB_FILE(e) == getenv(e.RESOURCE_STATS_DB, getenv(e.DISK_STATS_DB, DEFAULT_RESOURCE_DB))

\* db_summary.py and delete_db.py
DB_FILE_of_report(e) == getenv(e.DISK_STATS_DB, DEFAULT_DISK_DB)

Resolve(entry, e) ==
  IF entry \in {"db_summary", "delete_db"} THEN DB_FILE_of_report(e) ELSE DB_FILE(e)

PathInit ==
  /\ AtRest /\ schema = FALSE
  /\ \E e \in PathEnvs, via \in {"shell", "cron"}, entry \in EntryPoints :
       call = [fn |-> "DB_FILE", arg |-> [env |-> e, via |-> via, entry |-> entry],
               done |-> FALSE, result |-> <<>>]

\* The entry point is imported and resolves its DB_FILE.
PathCall ==
  /\ call.fn = "DB_FILE" /\ ~call.done
  /\ call' = [call EXCEPT !.done = TRUE,
                          !.result = Resolve(call.arg.entry,
                                             JobEnv(call.arg.env, call.arg.via))]
  /\ UNCHANGED restVars

PathNext == PathCall

PathSpec == PathInit /\ [][PathNext]_vars

PathResolved == call.fn = "DB_FILE" /\ call.done

\* C25: every entry point resolves the same store path from the same
\* configuration: the path of each is the path the collectors write to.
C25_SameStorePath ==
  PathResolved =>
    call.result = Resolve("resource_metrics_collector",
                          JobEnv(call.arg.env, call.arg.via))

\* The value of the variable when it is set to a non-empty value.
NonEmptyValue(var) == var.set /\ var.val # <<>>

\* C26: the store path of the collectors is the value of RESOURCE_STATS_DB
\* when that is set to a non-empty value, otherwise the value of
\* DISK_STATS_DB when that is set to a non-empty value, otherwise the
\* default path, in a shell and under the environment manage_cron exports.
C26_StorePathFallback ==
  (PathResolved /\ call.arg.entry = "resource_metrics_collector") =>
    LET e == call.arg.env
    IN call.result =
         IF NonEmptyValue(e.RESOURCE_STATS_DB) THEN e.RESOURCE_STATS_DB.val
         ELSE IF NonEmptyValue(e.DISK_STATS_DB) THEN e.DISK_STATS_DB.val
         ELSE DEFAULT_RESOURCE_DB

\* ------------------------------------------- one target and its probe file
\* The body of the loop of run_once_and_record for a target that passed
\* the reachability check: the write probe, the read probe, os.remove of
\* test_speed.tmp inside try / except: pass, the error check, and the
\* persistence step.
RemoveOutcomes == {"ok", "FileNotFoundError", "PermissionError"}

\* Variant: except FileNotFoundError: pass.
SwallowsOnlyMissing(exc) == exc = "FileNotFoundError"

\* except: pass around os.remove swallows whatever it raises.
Swallows(exc) == TRUE

\* The removal comes right after the two probes, before the error check.
CleanupAttempted(write, read) == TRUE

\* An exception that leaves the inner try reaches "except Exception" of the
\* target, which counts the target as failed.
probe_target(wr, rr, orm, oi, oq, os) ==
  LET write == test_io_speed(wr)
      read == test_io_speed(rr)
      cleanup == CleanupAttempted(write, read)
      escaped == cleanup /\ orm # "ok" /\ ~Swallows(orm)
      p == persist_target({}, {}, StatEntry(current_timestamp, <<"x">>, write, read),
                          now, oi, oq, os)
      failed == escaped \/ ProbeFailed(write, read)
  IN [trace |-> IF cleanup THEN <<"write", "read", "remove">> ELSE <<"write", "read">>,
      \* the file is there when a write probe opened it and it was not removed
      file_left |-> ~wr.error /\ ~(cleanup /\ orm = "ok"),
      raised |-> escaped,
      succeeded |-> IF failed THEN FALSE ELSE p.succeeded,
      rows |-> IF failed THEN {} ELSE p.raw]

TargetInputs ==
  { [wr |-> wr, rr |-> rr, orm |-> orm, oi |-> oi, oq |-> oq, os |-> os] :
      wr \in WriteRuns, rr \in ReadRuns, orm \in RemoveOutcomes,
      oi \in DbOutcomes, oq \in DbOutcomes, os \in DbOutcomes }

TargetInit ==
  /\ AtRest /\ schema = TRUE
  /\ \E a \in TargetInputs :
       /\ a.oi # "ok" => a.oq = "ok"
       /\ a.os \in SummaryInsertOutcomes(a.oq)
       /\ call = [fn |-> "probe_target", arg |-> a, done |-> FALSE, result |-> <<>>]

\* The body of the loop runs for the target.
TargetCall ==
  /\ call.fn = "probe_target" /\ ~call.done
  /\ LET a == call.arg
     IN call' = [call EXCEPT !.done = TRUE,
                             !.result = probe_target(a.wr, a.rr, a.orm, a.oi, a.oq, a.os)]
  /\ UNCHANGED restVars

TargetNext == TargetCall

TargetSpec == TargetInit /\ [][TargetNext]_vars

\* C27: for a target that passed the reachability check, the removal of
\* test_speed.tmp is attempted after the write and the read probe whether
\* or not a probe returned an error; a failing removal does not raise and
\* does not change the outcome of the target, which is the outcome of the
\* same run with a removal that succeeds.
C27_CleanupAlwaysAttempted ==
  (call.fn = "probe_target" /\ call.done) =>
    LET a == call.arg
        clean == probe_target(a.wr, a.rr, "ok", a.oi, a.oq, a.os)
    IN /\ call.result.trace = <<"write", "read", "remove">>
       /\ ~call.result.raised
       /\ call.result.succeeded = clean.succeeded
       /\ call.result.rows = clean.rows
       /\ a.orm = "ok" => ~call.result.file_left

\* The read probe failed and the removal failed too: the target failed as
\* it would have with the file removed.
C27_Witness ==
  /\ call.fn = "probe_target" /\ call.done
  /\ call.arg.rr.error /\ ~call.arg.wr.error
  /\ call.arg.orm = "PermissionError"
  /\ call.result.trace[3] = "remove" /\ ~call.result.succeeded
  /\ call.result.file_left

\* ------------------------------------------------------- the statistics
\* The three places that produce a standard deviation, over sample lists
\* of every length up to MaxSamples: the latency statistics of a probe, a
\* metric of the disk summary, a metric of the API summary.  The summaries
\* are computed over at least one row.
MaxSamples == 3
SampleValues == {1, 2, 3}

SampleLists == UNION { [1..n -> SampleValues] : n \in 0..MaxSamples }

StatsInputs ==
  { [fn |-> f, samples |-> xs] :
      f \in {"calculate_latency_stats", "compute_and_store_summary",
             "compute_and_store_api_summary"},
      xs \in SampleLists }

AsRats(xs) == [i \in 1..Len(xs) |-> <<xs[i], 1>>]

StatsInit ==
  /\ AtRest /\ schema = FALSE
  /\ \E a \in StatsInputs :
       /\ a.fn # "calculate_latency_stats" => a.samples # <<>>
       /\ call = [fn |-> "stats", arg |-> a, done |-> FALSE, result |-> <<>>]

\* The statistics are computed.
StatsCall ==
  /\ call.fn = "stats" /\ ~call.done
  /\ LET a == call.arg
     IN call' = [call EXCEPT
                   !.done = TRUE,
                   !.result = IF a.fn = "calculate_latency_stats"
                              THEN calculate_latency_stats(a.samples)
                              ELSE SummaryOf(AsRats(a.samples))]
  /\ UNCHANGED restVars

StatsNext == StatsCall

StatsSpec == StatsInit /\ [][StatsNext]_vars

\* The standard deviation of the result, whichever function produced it.
StddevOf(fn, result) ==
  IF fn = "calculate_latency_stats" THEN result.stdev ELSE result.stddev

\* C28: every standard deviation the collectors produce is 0 when fewer
\* than 2 samples contribute, and the latency statistics of an empty list
\* are min 0, max 0, avg 0, stdev 0.
C28_StddevZeroBelowTwo ==
  (call.fn = "stats" /\ call.done) =>
    /\ Len(call.arg.samples) < 2 => StddevOf(call.arg.fn, call.result) = 0
    /\ Len(call.arg.samples) >= 2 =>
         StddevOf(call.arg.fn, call.result) = Stdev(IF call.arg.fn = "calculate_latency_stats"
                                                    THEN call.arg.samples
                                                    ELSE AsRats(call.arg.samples))
    /\ (call.arg.fn = "calculate_latency_stats" /\ call.arg.samples = <<>>) =>
         call.result = [min |-> 0, max |-> 0, avg |-> <<0, 1>>, stdev |-> 0]

\* A summary metric computed over a single row.
C28_Witness ==
  /\ call.fn = "stats" /\ call.done
  /\ call.arg.fn = "compute_and_store_summary" /\ Len(call.arg.samples) = 1
  /\ call.result.stddev = 0 /\ call.result.min = call.result.max

\* --------------------------------------- retention with several targets
\* Cycles of a disk collector with k targets, five minutes apart, each
\* inserting one row per target in the order of the target map, so that the
\* rows of all targets share the rowid sequence of disk_stats; then one
\* retention pass, at a time when all these rows are between 1 and 3 days
\* old.  The table may hold one older row when the first cycle runs.
MaxTargets == 3
MaxCycles == 8
MaxFirstRowid == 6
CYCLE_MINUTES == 5
ThinLabels == <<<<"x">>, <<"y">>, <<"z">>, <<"w">>, <<"v">>>>

\* The minute of cycle c: the first cycle is 33 hours back.
CycleMinute(c) == StrfMinute(StartTime) - 2000 + CYCLE_MINUTES * c

ThinInit ==
  /\ Quiet /\ schema = TRUE
  /\ disk_stats_summary = {} /\ api_stats = {} /\ api_stats_summary = {}
  /\ \E k \in 1..MaxTargets, first \in 0..MaxFirstRowid :
       /\ disk_stats = IF first = 0 THEN {}
                       ELSE {PriorRow(first, <<"p">>, HOSTNAME, CycleMinute(0) - 4000, 1)}
       /\ call = [fn |-> "cycles", arg |-> k, done |-> FALSE, result |-> {},
                  cycles |-> 0]

\* The rows one cycle inserts, target after target.
RECURSIVE CycleInserts(_, _, _, _)
CycleInserts(table, i, k, c) ==
  IF i > k THEN table
  ELSE CycleInserts(table \cup {PriorRow(NextRowid(table), ThinLabels[i], HOSTNAME,
                                         CycleMinute(c), i)},
                    i + 1, k, c)

\* A cycle records every target.
ThinCycle ==
  /\ call.fn = "cycles" /\ ~call.done /\ call.cycles < MaxCycles
  /\ disk_stats' = CycleInserts(disk_stats, 1, call.arg, call.cycles)
  /\ call' = [call EXCEPT !.cycles = @ + 1]
  /\ UNCHANGED <<env, tz, now, schema, disk_stats_summary, api_stats,
                 api_stats_summary, proc, pc, config,
                 idx, timestamp, success_count, error_count, exit_code, due, entered,
                 steps, decimate_calls, raised, assigned, pass_base, before, passed_at>>

\* decimate_old_data, a day and more after the cycles.
ThinPass ==
  /\ call.fn = "cycles" /\ ~call.done /\ call.cycles >= MID_TIER_MODULUS
  /\ disk_stats' = DecimateTable(disk_stats, now)
  /\ call' = [call EXCEPT !.done = TRUE, !.result = disk_stats]
  /\ UNCHANGED <<env, tz, now, schema, disk_stats_summary, api_stats,
                 api_stats_summary, proc, pc, config,
                 idx, timestamp, success_count, error_count, exit_code, due, entered,
                 steps, decimate_calls, raised, assigned, pass_base, before, passed_at>>

ThinNext ==
  \/ ThinCycle
  \/ ThinPass

ThinSpec == ThinInit /\ [][ThinNext]_vars

\* C29: thinning is even across targets: a label with rows from at least 6
\* consecutive cycles in the 1-3 day tier still has a row of its own in
\* that tier after the retention pass.
C29_EveryLabelKeepsARow ==
  (call.fn = "cycles" /\ call.done) =>
    \A i \in 1..call.arg :
      (Cardinality({r \in call.result : r.label = ThinLabels[i] /\ MidTier(r, now)})
         >= MID_TIER_MODULUS)
      => \E r \in disk_stats : r.label = ThinLabels[i] /\ MidTier(r, now)

\* ------------------------------------------------------------ manage_cron
\* The crontab as the sequence of its lines.  A line carries the managed
\* comment of a job (its tag) or none; the text tells the entry the script
\* builds now from an entry installed earlier, a user's own line and an
\* empty line.
MaxLines == 3
MaxActions == 3

Jobs == <<"collector", "api-collector", "summary">>
JobSet == {Jobs[i] : i \in 1..Len(Jobs)}

Blank == [tag |-> "none", text |-> ""]
UserLine == [tag |-> "none", text |-> "0 3 * * * backup"]
OldEntry(job) == [tag |-> job, text |-> "earlier entry"]
\* f"{SCHEDULE} {env_str} {PYTHON_EXEC} {SCRIPT_PATH} {COMMENT}"
Entry(job) == [tag |-> job, text |-> "entry"]

Tagged(lines, job) == {i \in 1..Len(lines) : lines[i].tag = job}

Crontabs ==
  { c \in UNION { [1..n -> {Blank, UserLine} \cup {OldEntry(j) : j \in JobSet}]
                  : n \in 0..MaxLines } :
      \A j \in JobSet : Cardinality(Tagged(c, j)) <= 1 }

\* str.strip() on the output of crontab -l: empty lines at both ends go.
RECURSIVE StripLeading(_)
StripLeading(lines) ==
  IF lines = <<>> THEN <<>>
  ELSE IF Head(lines) = Blank THEN StripLeading(Tail(lines))
  ELSE lines

RECURSIVE StripTrailing(_)
StripTrailing(lines) ==
  IF lines = <<>> THEN <<>>
  ELSE IF lines[Len(lines)] = Blank THEN StripTrailing(SubSeq(lines, 1, Len(lines) - 1))
  ELSE lines

\* get_crontab_lines: result.stdout.strip().splitlines()
get_crontab_lines(crontab) == StripTrailing(StripLeading(crontab))

\* "\n".join(lines) + "\n" handed to crontab: no line gives one empty line.
WrittenCrontab(lines) == IF lines = <<>> THEN <<Blank>> ELSE lines

\* [line for line in current if no managed comment in line]
RECURSIVE WithoutManaged(_)
WithoutManaged(lines) ==
  IF lines = <<>> THEN <<>>
  ELSE IF Head(lines).tag \in JobSet THEN WithoutManaged(Tail(lines))
  ELSE <<Head(lines)>> \o WithoutManaged(Tail(lines))

\* Variant: install adds the three entries whatever is there.
JobsToAddAlways(current, i) == TRUE

\* install_cron_job adds the entry of a job only if no line carries its
\* comment.
JobsToAdd(current, i) == Tagged(current, Jobs[i]) = {}

RECURSIVE AddEntries(_, _)
AddEntries(current, i) ==
  IF i > Len(Jobs) THEN <<>>
  ELSE (IF JobsToAdd(current, i) THEN <<Entry(Jobs[i])>> ELSE <<>>)
       \o AddEntries(current, i + 1)

\* What each action asks to confirm; "none" when it returns before asking.
install_cron_job(current) ==
  IF \A j \in JobSet : Tagged(current, j) # {}
  THEN [asks |-> FALSE, lines |-> current]
  ELSE [asks |-> TRUE, lines |-> current \o AddEntries(current, 1)]

update_cron_job(current) ==
  [asks |-> TRUE,
   lines |-> WithoutManaged(current) \o [i \in 1..Len(Jobs) |-> Entry(Jobs[i])]]

remove_cron_job(current) == [asks |-> TRUE, lines |-> WithoutManaged(current)]

CronActions == {"install", "update", "remove"}
Answers == {"yes", "no"}

\* _confirm_and_apply_cron: input().strip().lower() == "yes"
ApplyCron(crontab, action, answer) ==
  LET current == get_crontab_lines(crontab)
      plan == IF action = "install" THEN install_cron_job(current)
              ELSE IF action = "update" THEN update_cron_job(current)
              ELSE remove_cron_job(current)
  IN IF plan.asks /\ answer = "yes" THEN WrittenCrontab(plan.lines) ELSE crontab

CronInit ==
  /\ AtRest /\ schema = FALSE
  /\ \E c \in Crontabs :
       call = [fn |-> "manage_cron", arg |-> c, done |-> FALSE, result |-> c,
               prev |-> c, action |-> "none", answer |-> "none", count |-> 0]

\* manage_cron is run with an action and the user answers.
CronAction ==
  /\ call.fn = "manage_cron" /\ call.count < MaxActions
  /\ \E a \in CronActions, ans \in Answers :
       call' = [call EXCEPT !.done = TRUE, !.prev = call.result,
                            !.result = ApplyCron(call.result, a, ans),
                            !.action = a, !.answer = ans, !.count = @ + 1]
  /\ UNCHANGED restVars

CronNext == CronAction

CronSpec == CronInit /\ [][CronNext]_vars

Unmanaged(lines) == WithoutManaged(lines)

RECURSIVE IsSubsequence(_, _)
IsSubsequence(s, t) ==
  IF s = <<>> THEN TRUE
  ELSE IF t = <<>> THEN FALSE
  ELSE IF Head(s) = Head(t) THEN IsSubsequence(Tail(s), Tail(t))
  ELSE IsSubsequence(s, Tail(t))

RECURSIVE NonBlank(_)
NonBlank(lines) ==
  IF lines = <<>> THEN <<>>
  ELSE IF Head(lines) = Blank THEN NonBlank(Tail(lines))
  ELSE <<Head(lines)>> \o NonBlank(Tail(lines))

\* At most one line per job; exactly one after a confirmed update, none
\* after a confirmed remove; an unconfirmed action changes nothing.
CronJobsKept ==
  /\ \A j \in JobSet : Cardinality(Tagged(call.result, j)) <= 1
  /\ (call.action = "update" /\ call.answer = "yes") =>
       \A j \in JobSet : Cardinality(Tagged(call.result, j)) = 1
  /\ (call.action = "remove" /\ call.answer = "yes") =>
       \A j \in JobSet : Tagged(call.result, j) = {}
  /\ (call.action # "none" /\ call.answer # "yes") => call.result = call.prev

====
